---- MODULE Spec2Model ----
(***************************************************************************)
(* Workflow data-flow resolution engine of the workflow builder:           *)
(* the execution state store (WorkflowExecutionProvider), the schema       *)
(* signature / storage compaction helpers and the data availability        *)
(* resolver (getAvailableDataForNode), modelled from                       *)
(* frontend/src/views/AIAgents/Workflows/context/WorkflowExecutionContext, *)
(* the template variable helpers (extractDynamicVariables,                 *)
(* parseInputValue, valueToString) of the workflow utils/helpers module,   *)
(* and the onboarding chat hook (useOnboardingChat).                       *)
(***************************************************************************)
EXTENDS Integers, Sequences, FiniteSets, TLC

VARIABLES state, nodes, edges, now, last, cleared, call, held, hook

vars == <<state, nodes, edges, now, last, cleared, call, held, hook>>

(***************************************************************************)
(* Bounds of the model.                                                    *)
(***************************************************************************)
\* largest value the millisecond clock Date.now() takes in the model
MaxTime == 1
\* longest edge list handed to setWorkflowStructure
MaxEdges == 2
\* longest array in a value handed to optimizeOutputForStorage
MaxLen == 3
\* most pieces a text handed to extractDynamicVariables is made of
MaxPieces == 4
\* most words a text handed to parseInputValue is made of
MaxWords == 2

(***************************************************************************)
(* JSON-like values.  A value is a record tagged with its JavaScript kind: *)
(* t is "null", or the typeof name for primitives, "array" for arrays and  *)
(* "object" for plain objects; v is the payload (a sequence for arrays, a  *)
(* function from keys to values for objects).                              *)
(***************************************************************************)
JNull == [t |-> "null"]
JNum(n) == [t |-> "number", v |-> n]
JStr(s) == [t |-> "string", v |-> s]
JBool(b) == [t |-> "boolean", v |-> b]
JArr(s) == [t |-> "array", v |-> s]
JObj(f) == [t |-> "object", v |-> f]
EmptyObj == JObj(<<>>)

IsObj(x) == x.t = "object"
IsArr(x) == x.t = "array"
Keys(x) == DOMAIN x.v

\* { ...a, ...b } on two plain objects: keys of b override keys of a
Spread(a, b) == JObj(b.v @@ a.v)

\* Every object key of the model, in the order Array.prototype.sort() gives
\* them (UTF-16 code unit order).
KeyOrder ==
  <<"__optimized", "__originalLength", "items", "my.session.direct_input.raw",
    "rows", "session.direct_input", "x", "y">>

KeyIndex(k) == CHOOSE i \in 1..Len(KeyOrder) : KeyOrder[i] = k

\* Object.keys(value).sort()
SortedKeys(f) ==
  LET idx == {KeyIndex(k) : k \in DOMAIN f}
      RECURSIVE build(_)
      build(S) == IF S = {} THEN <<>>
                  ELSE LET m == CHOOSE i \in S : \A j \in S : i <= j
                       IN <<KeyOrder[m]>> \o build(S \ {m})
  IN build(idx)

\* Array.prototype.join(",") on a sequence of strings
RECURSIVE JoinComma(_)
JoinComma(s) ==
  IF Len(s) = 0 THEN ""
  ELSE IF Len(s) = 1 THEN s[1]
  ELSE s[1] \o "," \o JoinComma(Tail(s))

RECURSIVE getSchemaSignature(_)
getSchemaSignature(value) ==
  IF value.t = "null" THEN "null"
  ELSE IF IsArr(value) THEN
    IF Len(value.v) = 0 THEN "array:empty"
    ELSE "array:" \o getSchemaSignature(value.v[1])
  ELSE IF IsObj(value) THEN
    LET keys == SortedKeys(value.v)
        signatures == [i \in 1..Len(keys) |->
                         keys[i] \o ":" \o getSchemaSignature(value.v[keys[i]])]
    IN "object:{" \o JoinComma(signatures) \o "}"
  ELSE value.t

\* hasUniformSchema that compares the kinds of the items only
hasUniformSchema_kindOnly(arr) ==
  IF Len(arr) <= 1 THEN TRUE
  ELSE \A i \in 1..Len(arr) : arr[i].t = arr[1].t

hasUniformSchema(arr) ==
  IF Len(arr) <= 1 THEN TRUE
  ELSE LET firstSignature == getSchemaSignature(arr[1])
       IN \A i \in 1..Len(arr) : getSchemaSignature(arr[i]) = firstSignature

\* default value of the arrayThreshold parameter
arrayThreshold == 2

\* optimizeOutputForStorage that keeps the first item of a truncated array
\* as it is
RECURSIVE optimizeOutputForStorage_rawFirstItem(_)
optimizeOutputForStorage_rawFirstItem(value) ==
  IF value.t = "null" THEN value
  ELSE IF IsArr(value) THEN
    IF Len(value.v) > arrayThreshold /\ hasUniformSchema(value.v) THEN
      JObj([k \in {"__optimized", "__originalLength", "items"} |->
             CASE k = "__optimized" -> JBool(TRUE)
               [] k = "__originalLength" -> JNum(Len(value.v))
               [] k = "items" -> JArr(<<value.v[1]>>)])
    ELSE JArr([i \in 1..Len(value.v) |->
                 optimizeOutputForStorage_rawFirstItem(value.v[i])])
  ELSE IF IsObj(value) THEN
    JObj([k \in DOMAIN value.v |->
           optimizeOutputForStorage_rawFirstItem(value.v[k])])
  ELSE value

RECURSIVE optimizeOutputForStorage(_)
optimizeOutputForStorage(value) ==
  IF value.t = "null" THEN value
  ELSE IF IsArr(value) THEN
    IF Len(value.v) > arrayThreshold /\ hasUniformSchema(value.v) THEN
      JObj([k \in {"__optimized", "__originalLength", "items"} |->
             CASE k = "__optimized" -> JBool(TRUE)
               [] k = "__originalLength" -> JNum(Len(value.v))
               [] k = "items" -> JArr(<<optimizeOutputForStorage(value.v[1])>>)])
    ELSE JArr([i \in 1..Len(value.v) |-> optimizeOutputForStorage(value.v[i])])
  ELSE IF IsObj(value) THEN
    JObj([k \in DOMAIN value.v |-> optimizeOutputForStorage(value.v[k])])
  ELSE value

(***************************************************************************)
(* The execution state store.  nodeOutputs is a JavaScript object keyed by *)
(* node id; its iteration order (Object.values) is the insertion order of  *)
(* the ids (node ids are not integer-like strings), so it is a sequence of *)
(* <<id, result>> entries.                                                 *)
(***************************************************************************)
NodeIds == {"A", "B", "C"}
NodeTypes == {"chatInputNode", "agentNode", "toolBuilderNode"}
NodeNames == {"node"}

\* outputs handed to updateNodeOutput (Record<string, unknown>)
Outputs ==
  { JObj([x |-> JNum(1)]),
    JObj([x |-> JNum(2), y |-> JStr("a")]),
    JObj([rows |-> JArr(<<JNum(1), JNum(2), JNum(3)>>)]) }

emptyState == [session |-> EmptyObj, source |-> EmptyObj, nodeOutputs |-> <<>>]

\* id in nodeOutputs
HasKey(outs, id) == \E i \in 1..Len(outs) : outs[i].id = id
IndexOf(outs, id) == CHOOSE i \in 1..Len(outs) : outs[i].id = id
\* nodeOutputs[id] (only used where the key exists)
Lookup(outs, id) == outs[IndexOf(outs, id)].result
StoredIds(outs) == {outs[i].id : i \in 1..Len(outs)}

\* nodeOutputs[id] = result: an existing key keeps its position, a new key
\* goes last
PutKey(outs, id, result) ==
  IF HasKey(outs, id)
  THEN [outs EXCEPT ![IndexOf(outs, id)] = [id |-> id, result |-> result]]
  ELSE Append(outs, [id |-> id, result |-> result])

\* delete nodeOutputs[id]
DeleteKey(outs, id) == SelectSeq(outs, LAMBDA e : e.id # id)

\* the forEach loops of clearNodeOutput: spread every (selected) output, in
\* iteration order, onto {}
RECURSIVE MergeOutputs(_, _)
MergeOutputs(outs, chatOnly) ==
  IF Len(outs) = 0 THEN EmptyObj
  ELSE LET init == MergeOutputs(SubSeq(outs, 1, Len(outs) - 1), chatOnly)
           r == outs[Len(outs)].result
       IN IF chatOnly /\ r.nodeType # "chatInputNode" THEN init
          ELSE Spread(init, r.output)

\* the onboarding chat hook before its component is rendered
notRendered == [phase |-> "none"]

Init ==
  /\ state = emptyState
  /\ nodes = <<>>
  /\ edges = <<>>
  /\ now = 0
  /\ last = [op |-> "init"]
  /\ cleared = <<>>
  /\ call = [op |-> "none"]
  /\ held = <<>>
  /\ hook = notRendered

\* the environment: time passes between two calls
Tick ==
  /\ now < MaxTime
  /\ now' = now + 1
  /\ UNCHANGED <<state, nodes, edges, last>>

\* updateNodeOutput that merges the new output into source instead of
\* replacing source by it
updateNodeOutput_mergesSource(nodeId, output, nodeType, nodeName) ==
  LET optimizedOutput == optimizeOutputForStorage(output)
      result == [status |-> "success", output |-> optimizedOutput,
                 timestamp |-> now, nodeType |-> nodeType,
                 nodeName |-> nodeName]
  IN /\ state' = [nodeOutputs |-> PutKey(state.nodeOutputs, nodeId, result),
                  session |-> IF nodeType = "chatInputNode"
                              THEN optimizedOutput ELSE state.session,
                  source |-> Spread(state.source, optimizedOutput)]
     /\ last' = [op |-> "updateNodeOutput", nodeId |-> nodeId,
                 output |-> output, nodeType |-> nodeType,
                 nodeName |-> nodeName]
     /\ UNCHANGED <<nodes, edges, now>>

updateNodeOutput(nodeId, output, nodeType, nodeName) ==
  LET optimizedOutput == optimizeOutputForStorage(output)
      result == [status |-> "success", output |-> optimizedOutput,
                 timestamp |-> now, nodeType |-> nodeType,
                 nodeName |-> nodeName]
  IN /\ state' = [nodeOutputs |-> PutKey(state.nodeOutputs, nodeId, result),
                  session |-> IF nodeType = "chatInputNode"
                              THEN optimizedOutput ELSE state.session,
                  source |-> optimizedOutput]
     /\ last' = [op |-> "updateNodeOutput", nodeId |-> nodeId,
                 output |-> output, nodeType |-> nodeType,
                 nodeName |-> nodeName]
     /\ UNCHANGED <<nodes, edges, now>>

\* clearNodeOutput that returns the state as it is when nodeId has no entry
clearNodeOutput_skipsAbsent(nodeId) ==
  LET remainingOutputs == DeleteKey(state.nodeOutputs, nodeId)
  IN /\ state' = IF HasKey(state.nodeOutputs, nodeId)
                 THEN [nodeOutputs |-> remainingOutputs,
                       session |-> MergeOutputs(remainingOutputs, TRUE),
                       source |-> MergeOutputs(remainingOutputs, FALSE)]
                 ELSE state
     /\ last' = [op |-> "clearNodeOutput", nodeId |-> nodeId]
     /\ UNCHANGED <<nodes, edges, now>>

\* clearNodeOutput that removes the entry and keeps the aggregates as they
\* were
clearNodeOutput_keepsAggregates(nodeId) ==
  /\ state' = [state EXCEPT !.nodeOutputs = DeleteKey(@, nodeId)]
  /\ last' = [op |-> "clearNodeOutput", nodeId |-> nodeId]
  /\ UNCHANGED <<nodes, edges, now>>

clearNodeOutput(nodeId) ==
  LET remainingOutputs == DeleteKey(state.nodeOutputs, nodeId)
  IN /\ state' = [nodeOutputs |-> remainingOutputs,
                  session |-> MergeOutputs(remainingOutputs, TRUE),
                  source |-> MergeOutputs(remainingOutputs, FALSE)]
     /\ last' = [op |-> "clearNodeOutput", nodeId |-> nodeId]
     /\ UNCHANGED <<nodes, edges, now>>

clearAllOutputs ==
  /\ state' = emptyState
  /\ last' = [op |-> "clearAllOutputs"]
  /\ UNCHANGED <<nodes, edges, now>>

\* state.nodeOutputs[nodeId]: <<result>>, or <<>> for undefined
getNodeOutput(nodeId) ==
  IF HasKey(state.nodeOutputs, nodeId)
  THEN <<Lookup(state.nodeOutputs, nodeId)>> ELSE <<>>

\* !!x for x a result object or undefined
ToBoolean(opt) == Len(opt) = 1

\* hasNodeBeenExecuted without the case of the empty store
hasNodeBeenExecuted_noEmptyCase(nodeId) == ToBoolean(getNodeOutput(nodeId))

hasNodeBeenExecuted(nodeId) ==
  IF Len(state.nodeOutputs) = 0 THEN TRUE
  ELSE ToBoolean(getNodeOutput(nodeId))

\* node types handed to updateNodeOutput: the store only tells the entry
\* point type from the others
RecordTypes == {"chatInputNode", "agentNode"}

RecordAny ==
  \E n \in NodeIds, o \in Outputs, ty \in RecordTypes, nm \in NodeNames :
    updateNodeOutput(n, o, ty, nm)

ClearAny == \E n \in NodeIds : clearNodeOutput(n)

Next ==
  \/ RecordAny /\ UNCHANGED <<cleared, call, held, hook>>
  \/ ClearAny /\ UNCHANGED <<cleared, call, held, hook>>
  \/ clearAllOutputs /\ UNCHANGED <<cleared, call, held, hook>>
  \/ Tick /\ UNCHANGED <<cleared, call, held, hook>>

Spec == Init /\ [][Next]_vars

\* The same calls with an audit of clearNodeOutput: cleared holds, right
\* after a clearNodeOutput call, the node id, the result the call removed (if
\* any) and the aggregates the store had before the call.
ClearAudited ==
  \E n \in NodeIds :
    /\ clearNodeOutput(n)
    /\ cleared' = <<[nodeId |-> n,
                     session |-> state.session, source |-> state.source,
                     removed |-> IF HasKey(state.nodeOutputs, n)
                                 THEN <<Lookup(state.nodeOutputs, n)>>
                                 ELSE <<>>]>>

NextAudit ==
  \/ RecordAny /\ cleared' = <<>> /\ UNCHANGED <<call, held, hook>>
  \/ ClearAudited /\ UNCHANGED <<call, held, hook>>
  \/ clearAllOutputs /\ cleared' = <<>> /\ UNCHANGED <<call, held, hook>>
  \/ Tick /\ UNCHANGED <<cleared, call, held, hook>>

AuditSpec == Init /\ [][NextAudit]_vars

\* The same calls seen by a consumer that read the state value from the
\* context right before the call.  held holds that value as it was when read
\* (before) and as the consumer finds it once the updater has run (after).
\* Both updaters copy the state with { ...prevState }, a copy whose
\* nodeOutputs is the very object of prevState: the assignment to, and the
\* delete from, newState.nodeOutputs act on the object the consumer holds,
\* while session and source are assigned on the copy only.
ObservedThrough(newOutputs) ==
  <<[before |-> state,
     after |-> [state EXCEPT !.nodeOutputs = newOutputs]]>>

RecordObserved == RecordAny /\ held' = ObservedThrough(state'.nodeOutputs)

ClearObserved == ClearAny /\ held' = ObservedThrough(state'.nodeOutputs)

\* clearAllOutputs hands setState a new object and leaves the old one alone
ClearAllObserved == clearAllOutputs /\ held' = ObservedThrough(state.nodeOutputs)

NextAlias ==
  \/ RecordObserved /\ UNCHANGED <<cleared, call, hook>>
  \/ ClearObserved /\ UNCHANGED <<cleared, call, hook>>
  \/ ClearAllObserved /\ UNCHANGED <<cleared, call, hook>>

AliasSpec == Init /\ [][NextAlias]_vars

(***************************************************************************)
(* The workflow structure and the data availability resolver.              *)
(* nodes is the node array (id and type of each node), edges the edge      *)
(* array (source and target of each edge).                                 *)
(***************************************************************************)
IdOrder == <<"A", "B", "C">>

\* the node arrays handed to setWorkflowStructure: unique ids, every node
\* one of two types; node A may be missing from the array
TypeChoices ==
  [A |-> {"chatInputNode", "toolBuilderNode"},
   B |-> {"agentNode", "toolBuilderNode"},
   C |-> {"agentNode", "chatInputNode"}]

NodeArrays ==
  LET arr(f, ids) == [i \in 1..Len(ids) |-> [id |-> ids[i], type |-> f[ids[i]]]]
      typings == {f \in [NodeIds -> NodeTypes] :
                    \A n \in NodeIds : f[n] \in TypeChoices[n]}
  IN {arr(f, IdOrder) : f \in typings} \cup {arr(f, Tail(IdOrder)) : f \in typings}

EdgeRecords == [source : NodeIds, target : NodeIds]

\* the edge arrays handed to setWorkflowStructure
EdgeArrays == UNION {[1..k -> EdgeRecords] : k \in 0..MaxEdges}

\* nodes.find((node) => node.id === nodeId): <<node>>, or <<>> for undefined
getNodeById(nodeId) ==
  LET found == SelectSeq(nodes, LAMBDA nd : nd.id = nodeId)
  IN IF Len(found) = 0 THEN <<>> ELSE <<found[1]>>

\* node?.type
TypeOf(nodeOpt) == IF Len(nodeOpt) = 0 THEN "undefined" ELSE nodeOpt[1].type

\* Set.prototype.add on a set kept in insertion order
SetAdd(s, x) == IF \E i \in 1..Len(s) : s[i] = x THEN s ELSE Append(s, x)

\* dfs of findPredecessors; st carries the two sets visited and predecessors
RECURSIVE dfs(_, _)
RECURSIVE dfsEdges(_, _, _)
dfs(nodeId, st) ==
  IF nodeId \in st.visited THEN st
  ELSE dfsEdges(nodeId, 1, [st EXCEPT !.visited = @ \cup {nodeId}])

\* the edges.forEach loop of dfs, from edge i on
dfsEdges(nodeId, i, st) ==
  IF i > Len(edges) THEN st
  ELSE IF edges[i].target = nodeId
  THEN dfsEdges(nodeId, i + 1,
                dfs(edges[i].source,
                    [st EXCEPT !.predecessors = SetAdd(@, edges[i].source)]))
  ELSE dfsEdges(nodeId, i + 1, st)

\* findPredecessors that stops at the sources of the edges into the target
findPredecessors_directOnly(targetNodeId) ==
  dfsEdges(targetNodeId, 1,
           [visited |-> NodeIds, predecessors |-> <<>>]).predecessors

findPredecessors(targetNodeId) ==
  dfs(targetNodeId, [visited |-> {}, predecessors |-> <<>>]).predecessors

\* findPredecessors(nodeId).filter((id) => id !== nodeId)
predecessorIdsOf(nodeId) ==
  SelectSeq(findPredecessors(nodeId), LAMBDA id : id # nodeId)

\* directPredecessorsOf without the type-exclusion rule
directPredecessorsOf_noExclusion(nodeId) ==
  LET incoming == SelectSeq(edges, LAMBDA edge : edge.target = nodeId)
  IN [i \in 1..Len(incoming) |-> incoming[i].source]

directPredecessorsOf(nodeId) ==
  LET currentNode == getNodeById(nodeId)
      incoming == SelectSeq(edges, LAMBDA edge : edge.target = nodeId)
      sources == [i \in 1..Len(incoming) |-> incoming[i].source]
  IN SelectSeq(sources, LAMBDA predecessorId :
       IF TypeOf(currentNode) = "agentNode"
       THEN TypeOf(getNodeById(predecessorId)) # "toolBuilderNode"
       ELSE TRUE)

\* the fixed marker of session-scoped direct-input fields
marker == "session.direct_input"

\* String.prototype.includes
Includes(key, sub) ==
  \E i \in 1..(Len(key) - Len(sub) + 1) : SubSeq(key, i, i + Len(sub) - 1) = sub

\* filterOutput that drops only the key equal to the marker
filterOutput_exactKey(output) ==
  IF ~IsObj(output) THEN output
  ELSE JObj([key \in Keys(output) \ {marker} |-> output.v[key]])

filterOutput(output) ==
  IF ~IsObj(output) THEN output
  ELSE JObj([key \in {k \in Keys(output) : ~Includes(k, marker)} |-> output.v[key]])

\* JavaScript truthiness of an output value
Truthy(x) ==
  CASE x.t = "null" -> FALSE
    [] x.t = "string" -> x.v # ""
    [] x.t = "number" -> x.v # 0
    [] x.t = "boolean" -> x.v
    [] OTHER -> TRUE

\* predecessorOutput && predecessorOutput.output
HasOutput(id) ==
  HasKey(state.nodeOutputs, id) /\ Truthy(Lookup(state.nodeOutputs, id).output)

\* the ids of a sequence of ids
Range(s) == {s[i] : i \in 1..Len(s)}

\* the exposed output of a node with a recorded result
exposedOutput(id) == filterOutput(Lookup(state.nodeOutputs, id).output)

\* the nodeOutputs object built from all predecessor outputs
buildNodeOutputs(predecessorIds) ==
  JObj([id \in {p \in Range(predecessorIds) : HasOutput(p)} |->
         exposedOutput(id)])

\* buildSource that hands out the source aggregate of the store
buildSource_storeAggregate(directPredecessors) == state.source

\* the source object built from the direct predecessors only
buildSource(directPredecessors) ==
  IF Len(directPredecessors) = 1
  THEN IF HasOutput(directPredecessors[1])
       THEN exposedOutput(directPredecessors[1]) ELSE EmptyObj
  ELSE JObj([id \in {p \in Range(directPredecessors) : HasOutput(p)} |->
              exposedOutput(id)])

\* the availableData object
availableData(source, nodeOutputs) ==
  JObj([k \in {"session", "source", "node_outputs"} |->
         CASE k = "session" -> state.session
           [] k = "source" -> source
           [] k = "node_outputs" -> nodeOutputs])

\* getAvailableDataForNode without the entry-point case
getAvailableDataForNode_noEntryPoint(nodeId) ==
  LET predecessorIds == predecessorIdsOf(nodeId)
  IN IF Len(predecessorIds) = 0 THEN JNull
     ELSE availableData(buildSource(directPredecessorsOf(nodeId)),
                        buildNodeOutputs(predecessorIds))

getAvailableDataForNode(nodeId) ==
  LET predecessorIds == predecessorIdsOf(nodeId)
      node == getNodeById(nodeId)
  IN IF Len(predecessorIds) = 0 /\ TypeOf(node) = "chatInputNode"
     THEN state.session
     ELSE IF Len(predecessorIds) = 0 THEN JNull
     ELSE availableData(buildSource(directPredecessorsOf(nodeId)),
                        buildNodeOutputs(predecessorIds))

setWorkflowStructure(newNodes, newEdges) ==
  /\ nodes' = newNodes
  /\ edges' = newEdges
  /\ last' = [op |-> "setWorkflowStructure"]
  /\ UNCHANGED <<state, now>>

\* The structure is supplied once per editing session, before any node runs.
SetStructure ==
  /\ Len(nodes) = 0
  /\ state = emptyState
  /\ \E newNodes \in NodeArrays, newEdges \in EdgeArrays :
       setWorkflowStructure(newNodes, newEdges)

\* the output each node produces while a workflow structure is loaded: some
\* carry keys that contain the marker
DataOutput ==
  [A |-> JObj(("x" :> JNum(1)) @@ ("session.direct_input" :> JStr("hi"))),
   B |-> JObj(("y" :> JStr("a")) @@ ("my.session.direct_input.raw" :> JStr("hi"))),
   C |-> JObj([x |-> JNum(2)])]

\* a node of the loaded structure runs and records its output under its own
\* type
RecordData ==
  \E n \in NodeIds :
    updateNodeOutput(n, DataOutput[n],
                     IF TypeOf(getNodeById(n)) = "chatInputNode"
                     THEN "chatInputNode" ELSE "agentNode",
                     "node")

NextData ==
  \/ SetStructure /\ UNCHANGED <<cleared, call, held, hook>>
  \/ RecordData /\ UNCHANGED <<cleared, call, held, hook>>
  \/ ClearAny /\ UNCHANGED <<cleared, call, held, hook>>
  \/ clearAllOutputs /\ UNCHANGED <<cleared, call, held, hook>>

DataSpec == Init /\ [][NextData]_vars

(***************************************************************************)
(* findPredecessors as it runs, one step of dfs at a time.  call holds the *)
(* call in progress: the target, the stack of dfs activations (the node    *)
(* id of each and the index i of the edge its forEach loop looks at next;  *)
(* i = 0 before the visited test), the sets visited and predecessors, and, *)
(* once the call is over, how it ended (outcome) and what it returned.     *)
(***************************************************************************)

\* the structures a traversal runs on: the node types play no part in it
TraverseInit ==
  /\ state = emptyState
  /\ nodes = [i \in 1..Len(IdOrder) |-> [id |-> IdOrder[i], type |-> "agentNode"]]
  /\ edges \in EdgeArrays
  /\ now = 0
  /\ last = [op |-> "setWorkflowStructure"]
  /\ cleared = <<>>
  /\ call = [op |-> "none"]
  /\ held = <<>>
  /\ hook = notRendered

Running == call.op = "findPredecessors" /\ call.outcome = "running"

\* findPredecessors(targetNodeId) is called: two empty sets, dfs(targetNodeId)
callFindPredecessors ==
  /\ call.op = "none"
  /\ \E targetNodeId \in NodeIds :
       call' = [op |-> "findPredecessors", target |-> targetNodeId,
                stack |-> <<[nodeId |-> targetNodeId, i |-> 0]>>,
                visited |-> {}, predecessors |-> <<>>,
                outcome |-> "running", result |-> <<>>]
  /\ UNCHANGED <<state, nodes, edges, now, last, cleared, held, hook>>

Top == call.stack[Len(call.stack)]
Pop(stack) == SubSeq(stack, 1, Len(stack) - 1)

\* dfsEnter without the visited test
dfsEnter_noVisitedTest ==
  /\ Running /\ Len(call.stack) > 0 /\ Top.i = 0
  /\ call' = [call EXCEPT !.visited = @ \cup {Top.nodeId},
                          !.stack[Len(call.stack)].i = 1]
  /\ UNCHANGED <<state, nodes, edges, now, last, cleared, held, hook>>

\* entry of dfs(nodeId): return at once if visited, else mark visited
dfsEnter ==
  /\ Running /\ Len(call.stack) > 0 /\ Top.i = 0
  /\ call' = IF Top.nodeId \in call.visited
             THEN [call EXCEPT !.stack = Pop(@)]
             ELSE [call EXCEPT !.visited = @ \cup {Top.nodeId},
                               !.stack[Len(call.stack)].i = 1]
  /\ UNCHANGED <<state, nodes, edges, now, last, cleared, held, hook>>

\* dfsLoop that adds the source of the edge without visiting it
dfsLoop_noRecursion ==
  /\ Running /\ Len(call.stack) > 0 /\ Top.i >= 1 /\ Top.i <= Len(edges)
  /\ call' = IF edges[Top.i].target = Top.nodeId
             THEN [call EXCEPT
                     !.predecessors = SetAdd(@, edges[Top.i].source),
                     !.stack[Len(call.stack)].i = @ + 1]
             ELSE [call EXCEPT !.stack[Len(call.stack)].i = @ + 1]
  /\ UNCHANGED <<state, nodes, edges, now, last, cleared, held, hook>>

\* one iteration of edges.forEach in dfs(nodeId)
dfsLoop ==
  /\ Running /\ Len(call.stack) > 0 /\ Top.i >= 1 /\ Top.i <= Len(edges)
  /\ call' = IF edges[Top.i].target = Top.nodeId
             THEN [call EXCEPT
                     !.predecessors = SetAdd(@, edges[Top.i].source),
                     !.stack = Append([@ EXCEPT ![Len(@)].i = @ + 1],
                                      [nodeId |-> edges[Top.i].source, i |-> 0])]
             ELSE [call EXCEPT !.stack[Len(call.stack)].i = @ + 1]
  /\ UNCHANGED <<state, nodes, edges, now, last, cleared, held, hook>>

\* the forEach loop of dfs(nodeId) is over: dfs returns
dfsExit ==
  /\ Running /\ Len(call.stack) > 0 /\ Top.i > Len(edges)
  /\ call' = [call EXCEPT !.stack = Pop(@)]
  /\ UNCHANGED <<state, nodes, edges, now, last, cleared, held, hook>>

\* return Array.from(predecessors)
findPredecessorsReturn ==
  /\ Running /\ Len(call.stack) = 0
  /\ call' = [call EXCEPT !.outcome = "returned", !.result = call.predecessors]
  /\ UNCHANGED <<state, nodes, edges, now, last, cleared, held, hook>>

TraverseStep == dfsEnter \/ dfsLoop \/ dfsExit \/ findPredecessorsReturn

NextTraverse ==
  \/ callFindPredecessors
  \/ dfsEnter
  \/ dfsLoop
  \/ dfsExit
  \/ findPredecessorsReturn

\* a call, once made, runs to its end: JavaScript runs it synchronously
TraverseSpec == TraverseInit /\ [][NextTraverse]_vars /\ WF_vars(TraverseStep)


(***************************************************************************)
(* optimizeOutputForStorage on its own: the JSON-like values it is called  *)
(* with, arrays of up to MaxLen items, flat and nested.                    *)
(***************************************************************************)

\* all arrays of at most MaxLen items taken from E
ArraysOver(E) == {JArr(s) : s \in UNION {[1..k -> E] : k \in 0..MaxLen}}

\* scalars and small objects
FlatItems ==
  {JNull, JNum(1), JStr("a"), JObj([x |-> JNum(1)]), JObj([x |-> JStr("a")])}

\* arrays and objects that hold arrays
NestedItems ==
  {JNum(1),
   JArr(<<>>),
   JArr(<<JNum(1)>>),
   JArr(<<JNum(1), JStr("a")>>),
   JArr([i \in 1..MaxLen |-> JNum(1)]),
   JObj([rows |-> JArr([i \in 1..MaxLen |-> JNum(1)])])}

CompactValues ==
  LET arrays == ArraysOver(FlatItems) \cup ArraysOver(NestedItems)
  IN FlatItems \cup arrays \cup {JObj([rows |-> a]) : a \in ArraysOver(FlatItems)}

callOptimizeOutputForStorage ==
  /\ call.op = "none"
  /\ \E value \in CompactValues :
       call' = [op |-> "optimizeOutputForStorage", value |-> value,
                result |-> optimizeOutputForStorage(value)]
  /\ UNCHANGED <<state, nodes, edges, now, last, cleared, held, hook>>

\* the caller drops the result
callReturn ==
  /\ call.op # "none"
  /\ call' = [op |-> "none"]
  /\ UNCHANGED <<state, nodes, edges, now, last, cleared, held, hook>>

NextCompact ==
  \/ callOptimizeOutputForStorage
  \/ callReturn

CompactSpec == Init /\ [][NextCompact]_vars


(***************************************************************************)
(* The template variable helpers.  A text is a sequence of characters      *)
(* (strings of length one).                                                *)
(***************************************************************************)

\* the characters of a string literal
Chars(s) == [i \in 1..Len(s) |-> SubSeq(s, i, i)]

RECURSIVE Concat(_)
Concat(ss) == IF Len(ss) = 0 THEN <<>> ELSE Head(ss) \o Concat(Tail(ss))

\* the characters the regular expression class \s matches
Whitespace == {" ", "\t", "\n", "\r"}

\* the class [^\s{}] without the \s
IsNameChar_noSpaceTest(c) == c \notin {"{", "}"}

\* the class [^\s{}]
IsNameChar(c) == c \notin Whitespace \cup {"{", "}"}

\* the index of the last character of the longest run of [^\s{}] characters
\* that starts at index i (i - 1 if there is none)
RECURSIVE RunEnd(_, _)
RunEnd(text, i) ==
  IF i <= Len(text) /\ IsNameChar(text[i]) THEN RunEnd(text, i + 1) ELSE i - 1

\* text.match(/{{([^\s{}]+)}}/g) || []: the matches from index i on, left to
\* right, each search resuming after the previous match.  The class matches
\* no brace, so only the longest run can be followed by "}}".
RECURSIVE MatchAll(_, _)
MatchAll(text, i) ==
  IF i + 4 > Len(text) THEN <<>>
  ELSE LET j == RunEnd(text, i + 2)
       IN IF /\ text[i] = "{" /\ text[i + 1] = "{"
             /\ j >= i + 2
             /\ j + 2 <= Len(text)
             /\ text[j + 1] = "}" /\ text[j + 2] = "}"
          THEN <<SubSeq(text, i, j + 2)>> \o MatchAll(text, j + 3)
          ELSE MatchAll(text, i + 1)

\* v.slice(2, -2)
Slice2(v) == SubSeq(v, 3, Len(v) - 2)

\* curlyMatches.forEach((v) => variables.add(v.slice(2, -2))) on a Set kept
\* in insertion order
RECURSIVE AddAll(_, _)
AddAll(variables, matches) ==
  IF Len(matches) = 0 THEN variables
  ELSE AddAll(SetAdd(variables, Slice2(Head(matches))), Tail(matches))

extractDynamicVariables(text) == AddAll(<<>>, MatchAll(text, 1))

\* the pieces the texts are made of
Pieces ==
  {Chars("{{a}}"), Chars("{{ b }}"), Chars("{{"), Chars("}}"), Chars("{"),
   Chars("}"), Chars(" "), Chars("a"), Chars("b")}

Texts == {Concat(ps) : ps \in UNION {[1..k -> Pieces] : k \in 0..MaxPieces}}

callExtractDynamicVariables ==
  /\ call.op = "none"
  /\ \E text \in Texts :
       call' = [op |-> "extractDynamicVariables", text |-> text,
                result |-> extractDynamicVariables(text)]
  /\ UNCHANGED <<state, nodes, edges, now, last, cleared, held, hook>>

NextExtract ==
  \/ callExtractDynamicVariables
  \/ callReturn

ExtractSpec == Init /\ [][NextExtract]_vars


(***************************************************************************)
(* parseInputValue.  Strings are JStr of a text; a number is the decimal   *)
(* m * 10^e with m not divisible by 10 (0 is m = 0, e = 0), or an infinity *)
(* of sign m; the zeros -0 and 0, equal under ===, are one value.          *)
(***************************************************************************)
RECURSIVE Normalize(_, _)
Normalize(m, e) ==
  IF m = 0 THEN [m |-> 0, e |-> 0, inf |-> FALSE]
  ELSE IF m % 10 = 0 THEN Normalize(m \div 10, e + 1)
  ELSE [m |-> m, e |-> e, inf |-> FALSE]

Num(m, e) == [t |-> "number", v |-> Normalize(m, e)]
Infinity(sign) == [t |-> "number", v |-> [m |-> sign, e |-> 0, inf |-> TRUE]]

DigitVal ==
  [c \in {"0", "1", "2", "3", "4", "5", "6", "7", "8", "9"} |->
     CASE c = "0" -> 0 [] c = "1" -> 1 [] c = "2" -> 2 [] c = "3" -> 3
       [] c = "4" -> 4 [] c = "5" -> 5 [] c = "6" -> 6 [] c = "7" -> 7
       [] c = "8" -> 8 [] c = "9" -> 9]

IsDigit(c) == c \in DOMAIN DigitVal

\* the index of the last digit of the run of digits that starts at index i
\* (i - 1 if there is none)
RECURSIVE DigitsEnd(_, _)
DigitsEnd(text, i) ==
  IF i <= Len(text) /\ IsDigit(text[i]) THEN DigitsEnd(text, i + 1) ELSE i - 1

\* the number a run of digits denotes (0 for the empty run)
RECURSIVE NatOf(_)
NatOf(digits) ==
  IF Len(digits) = 0 THEN 0
  ELSE 10 * NatOf(SubSeq(digits, 1, Len(digits) - 1)) + DigitVal[digits[Len(digits)]]

\* text[i], or "" past the end
At(text, i) == IF i >= 1 /\ i <= Len(text) THEN text[i] ELSE ""

\* the text has the characters of word from index i on
StartsWith(text, i, word) ==
  i + Len(word) - 1 <= Len(text) /\ SubSeq(text, i, i + Len(word) - 1) = word

\* The longest unsigned decimal literal that starts at index i: digits, a
\* fraction, an exponent.  strict is the JSON grammar (an integer part
\* without leading zero, a fraction only with digits on both sides); else
\* the StrDecimalLiteral grammar of parseFloat (either side of the point may
\* be empty).  An exponent counts only with digits.

\* the index of the last digit of the integer part (i - 1 if it is empty)
IntEnd(text, i, strict) ==
  IF strict /\ At(text, i) = "0" THEN i ELSE DigitsEnd(text, i)

\* the index of the last digit of the fraction (intEnd if there is none)
FracEnd(text, i, strict, intEnd) ==
  IF /\ At(text, intEnd + 1) = "."
     /\ IsDigit(At(text, intEnd + 2))
     /\ (strict => intEnd >= i)
  THEN DigitsEnd(text, intEnd + 2)
  ELSE intEnd

\* the index of the first digit of an exponent that follows index mantEnd
ExpStart(text, mantEnd) ==
  IF At(text, mantEnd + 2) \in {"+", "-"} THEN mantEnd + 3 ELSE mantEnd + 2

\* the index of the last digit of the exponent (mantEnd if there is none)
ExpEnd(text, mantEnd) ==
  IF /\ At(text, mantEnd + 1) \in {"e", "E"}
     /\ IsDigit(At(text, ExpStart(text, mantEnd)))
  THEN DigitsEnd(text, ExpStart(text, mantEnd))
  ELSE mantEnd

\* the literal with its three parts found
DecimalOf(text, i, strict, intEnd, mantEnd, expEnd) ==
  LET fracLen == IF mantEnd > intEnd THEN mantEnd - intEnd - 1 ELSE 0
      digits == SubSeq(text, i, intEnd) \o SubSeq(text, intEnd + 2, mantEnd)
      expDigits == SubSeq(text, ExpStart(text, mantEnd), expEnd)
      expVal == IF expEnd = mantEnd THEN 0
                ELSE IF At(text, mantEnd + 2) = "-" THEN 0 - NatOf(expDigits)
                ELSE NatOf(expDigits)
  IN [ok |-> (intEnd >= i) \/ (~strict /\ mantEnd > intEnd),
      m |-> NatOf(digits),
      e |-> expVal - fracLen,
      next |-> expEnd + 1]

ScanExponent(text, i, strict, intEnd, mantEnd) ==
  DecimalOf(text, i, strict, intEnd, mantEnd, ExpEnd(text, mantEnd))

ScanFraction(text, i, strict, intEnd) ==
  ScanExponent(text, i, strict, intEnd, FracEnd(text, i, strict, intEnd))

ScanDecimal(text, i, strict) ==
  ScanFraction(text, i, strict, IntEnd(text, i, strict))

\* the index of the first character from index i on that is not in ws
RECURSIVE SkipChars(_, _, _)
SkipChars(text, i, ws) ==
  IF i <= Len(text) /\ text[i] \in ws THEN SkipChars(text, i + 1, ws) ELSE i

\* the number of sign sign whose unsigned literal is lit: <<number>>, or
\* <<>> (NaN) without a literal
SignedNumber(sign, lit) ==
  IF lit.ok THEN <<Num(sign * lit.m, lit.e)>> ELSE <<>>

\* parseFloat on the text from index start, its first character that is not
\* whitespace
ParseFloatFrom(value, start) ==
  LET sign == IF At(value, start) = "-" THEN 0 - 1 ELSE 1
      first == IF At(value, start) \in {"+", "-"} THEN start + 1 ELSE start
  IN IF StartsWith(value, first, Chars("Infinity")) THEN <<Infinity(sign)>>
     ELSE SignedNumber(sign, ScanDecimal(value, first, FALSE))

\* parseFloat(value): <<number>>, or <<>> for NaN
parseFloat(value) == ParseFloatFrom(value, SkipChars(value, 1, Whitespace))

\* String.prototype.toLowerCase on the letters A to Z
LowerOf ==
  LET upper == Chars("ABCDEFGHIJKLMNOPQRSTUVWXYZ")
      lower == Chars("abcdefghijklmnopqrstuvwxyz")
  IN [c \in Range(upper) |-> lower[CHOOSE i \in 1..26 : upper[i] = c]]

toLowerCase(text) ==
  [i \in 1..Len(text) |->
     IF text[i] \in DOMAIN LowerOf THEN LowerOf[text[i]] ELSE text[i]]

\* the index of the last character, from index i down, that is not whitespace
RECURSIVE LastNonSpace(_, _)
LastNonSpace(text, i) ==
  IF i >= 1 /\ text[i] \in Whitespace THEN LastNonSpace(text, i - 1) ELSE i

\* trim that removes the leading whitespace only
trim_leadingOnly(text) ==
  SubSeq(text, SkipChars(text, 1, Whitespace), Len(text))

\* String.prototype.trim
trim(text) ==
  SubSeq(text, SkipChars(text, 1, Whitespace), LastNonSpace(text, Len(text)))

\* JSON.parse.  A parse step gives [ok |-> FALSE] (a SyntaxError), or the
\* value read and the index after it.
ParseError == [ok |-> FALSE]
Parsed(v, next) == [ok |-> TRUE, v |-> v, next |-> next]

JsonWhitespace == {" ", "\t", "\n", "\r"}

\* the character a two-character escape stands for (the escapes \b, \f and
\* \uXXXX are in no text of the model)
Unescape ==
  [c \in {"\"", "\\", "/", "n", "r", "t"} |->
     CASE c = "n" -> "\n" [] c = "r" -> "\r" [] c = "t" -> "\t" [] OTHER -> c]

\* the rest of a string literal from index i on, acc the characters read so
\* far: up to the closing quotation mark, a backslash taking the character
\* after it, a control character ending the parse
RECURSIVE StringBody(_, _, _)
StringBody(text, i, acc) ==
  IF i > Len(text) \/ text[i] \in {"\t", "\n", "\r"} THEN ParseError
  ELSE IF text[i] = "\"" THEN Parsed(JStr(acc), i + 1)
  ELSE IF text[i] # "\\" THEN StringBody(text, i + 1, Append(acc, text[i]))
  ELSE IF At(text, i + 1) \in DOMAIN Unescape
  THEN StringBody(text, i + 2, Append(acc, Unescape[text[i + 1]]))
  ELSE ParseError

\* a string literal that starts (with its quotation mark) at index i
ParseString(text, i) ==
  IF At(text, i) = "\"" THEN StringBody(text, i + 1, <<>>) ELSE ParseError

\* the number literal of sign sign whose unsigned part is lit
NumberParsed(sign, lit) ==
  IF lit.ok THEN Parsed(Num(sign * lit.m, lit.e), lit.next) ELSE ParseError

\* a number literal that starts at index i
ParseNumber(text, i) ==
  IF At(text, i) = "-"
  THEN NumberParsed(0 - 1, ScanDecimal(text, i + 1, TRUE))
  ELSE NumberParsed(1, ScanDecimal(text, i, TRUE))

RECURSIVE ParseValueAt(_, _)
RECURSIVE ElementsAfter(_, _, _)
RECURSIVE MembersAfter(_, _, _)

\* the value that starts at index i0, after whitespace
ParseValue(text, i0) == ParseValueAt(text, SkipChars(text, i0, JsonWhitespace))

\* the elements of an array from index i on, acc the elements read so far
ParseElements(text, i, acc) == ElementsAfter(text, acc, ParseValue(text, i))

\* the members of an object from index i on, acc the members read so far
ParseMembers(text, i, acc) ==
  MembersAfter(text, acc, ParseString(text, SkipChars(text, i, JsonWhitespace)))

\* the value that starts at index i
ParseValueAt(text, i) ==
  IF StartsWith(text, i, Chars("null")) THEN Parsed(JNull, i + 4)
  ELSE IF StartsWith(text, i, Chars("true")) THEN Parsed(JBool(TRUE), i + 4)
  ELSE IF StartsWith(text, i, Chars("false")) THEN Parsed(JBool(FALSE), i + 5)
  ELSE IF At(text, i) = "\"" THEN ParseString(text, i)
  ELSE IF At(text, i) = "-" \/ IsDigit(At(text, i)) THEN ParseNumber(text, i)
  ELSE IF At(text, i) = "[" THEN
    IF At(text, SkipChars(text, i + 1, JsonWhitespace)) = "]"
    THEN Parsed(JArr(<<>>), SkipChars(text, i + 1, JsonWhitespace) + 1)
    ELSE ParseElements(text, i + 1, <<>>)
  ELSE IF At(text, i) = "{" THEN
    IF At(text, SkipChars(text, i + 1, JsonWhitespace)) = "}"
    THEN Parsed(JObj(<<>>), SkipChars(text, i + 1, JsonWhitespace) + 1)
    ELSE ParseMembers(text, i + 1, <<>>)
  ELSE ParseError

\* the rest of an array once the element element is read: a comma and more
\* elements, or the closing bracket
ElementsAfter(text, acc, element) ==
  IF ~element.ok THEN ParseError
  ELSE LET j == SkipChars(text, element.next, JsonWhitespace)
       IN IF At(text, j) = ","
          THEN ParseElements(text, j + 1, Append(acc, element.v))
          ELSE IF At(text, j) = "]"
          THEN Parsed(JArr(Append(acc, element.v)), j + 1)
          ELSE ParseError

\* the rest of an object once the key key is read: a colon, the value, then
\* a comma and more members, or the closing brace (a key read again takes
\* the later value)
MembersAfter(text, acc, key) ==
  IF ~key.ok THEN ParseError
  ELSE LET colon == SkipChars(text, key.next, JsonWhitespace)
           member == ParseValue(text, colon + 1)
           j == SkipChars(text, member.next, JsonWhitespace)
       IN IF At(text, colon) # ":" \/ ~member.ok THEN ParseError
          ELSE IF At(text, j) = ","
          THEN ParseMembers(text, j + 1, (key.v.v :> member.v) @@ acc)
          ELSE IF At(text, j) = "}"
          THEN Parsed(JObj((key.v.v :> member.v) @@ acc), j + 1)
          ELSE ParseError

\* the value read from index 1 is the result if only whitespace follows it
WholeText(text, value) ==
  IF value.ok /\ SkipChars(text, value.next, JsonWhitespace) > Len(text)
  THEN <<value.v>> ELSE <<>>

\* JSON.parse(text): <<value>>, or <<>> when it throws a SyntaxError
JSONparse(text) == WholeText(text, ParseValue(text, 1))

\* the schema types (SchemaType)
SchemaTypes == {"string", "number", "boolean", "object", "array", "any"}

\* What the try block of parseInputValue does: it returns a value
\* ([thrown |-> FALSE, v |-> value]) or throws ([thrown |-> TRUE]).
Returns(v) == [thrown |-> FALSE, v |-> v]
Throws == [thrown |-> TRUE]

\* case "number", num the result of parseFloat; case "object" / "array",
\* num the result of JSON.parse
ValueOrThrow(num) == IF Len(num) = 0 THEN Throws ELSE Returns(num[1])

\* case "boolean"
BooleanOrThrow(lowerValue) ==
  IF lowerValue \in {Chars("true"), Chars("1"), Chars("yes")}
  THEN Returns(JBool(TRUE))
  ELSE IF lowerValue \in {Chars("false"), Chars("0"), Chars("no")}
  THEN Returns(JBool(FALSE))
  ELSE Throws

\* case "any"
FirstOf(value, json, num, lowerValue) ==
  IF Len(json) = 1 THEN Returns(json[1])
  ELSE IF Len(num) = 1 THEN Returns(num[1])
  ELSE IF lowerValue = Chars("true") THEN Returns(JBool(TRUE))
  ELSE IF lowerValue = Chars("false") THEN Returns(JBool(FALSE))
  ELSE Returns(JStr(value))

tryCoerce(value, type) ==
  CASE type = "string" -> Returns(JStr(value))
    [] type = "number" -> ValueOrThrow(parseFloat(value))
    [] type = "boolean" -> BooleanOrThrow(trim(toLowerCase(value)))
    [] type \in {"object", "array"} -> ValueOrThrow(JSONparse(value))
    [] type = "any" ->
         FirstOf(value, JSONparse(value), parseFloat(value),
                 trim(toLowerCase(value)))
    [] OTHER -> Returns(JStr(value))

\* the outer catch block: the warning and the text, for an attempt that threw
Caught(value, attempt) ==
  IF attempt.thrown
  THEN [outcome |-> "returned", result |-> JStr(value), warned |-> TRUE]
  ELSE [outcome |-> "returned", result |-> attempt.v, warned |-> FALSE]

\* parseInputValue without the outer try/catch: the error of a coercion that
\* threw reaches the caller
parseInputValue_noCatch(value, type) ==
  IF Len(value) = 0 \/ Len(trim(value)) = 0
  THEN [outcome |-> "returned", result |-> JStr(value), warned |-> FALSE]
  ELSE LET attempt == tryCoerce(value, type)
       IN IF attempt.thrown
          THEN [outcome |-> "threw", result |-> JStr(value), warned |-> FALSE]
          ELSE [outcome |-> "returned", result |-> attempt.v, warned |-> FALSE]

\* parseInputValue(value, type): how the call ends, what it returns and
\* whether it logged a warning (console.warn in the catch block)
parseInputValue(value, type) ==
  IF Len(value) = 0 \/ Len(trim(value)) = 0
  THEN [outcome |-> "returned", result |-> JStr(value), warned |-> FALSE]
  ELSE Caught(value, tryCoerce(value, type))

\* the words the texts handed to parseInputValue are made of
Words ==
  {Chars("true"), Chars("TRUE"), Chars("Yes"), Chars("yes"), Chars("no"),
   Chars("false"), Chars("0"), Chars("1"), Chars("nah"),
   Chars("12"), Chars("3.14"), Chars("-"), Chars("."), Chars("e"),
   Chars("Infinity"), Chars("abc"), Chars(" "),
   Chars("{\"a\":1}"), Chars("[1,2]"), Chars("\"hi\""), Chars("null"),
   Chars("["), Chars("]"), Chars(",")}

InputTexts == {Concat(ws) : ws \in UNION {[1..k -> Words] : k \in 0..MaxWords}}

callParseInputValue ==
  /\ call.op = "none"
  /\ \E value \in InputTexts, type \in SchemaTypes :
       call' = [op |-> "parseInputValue", value |-> value, type |-> type]
                 @@ parseInputValue(value, type)
  /\ UNCHANGED <<state, nodes, edges, now, last, cleared, held, hook>>

NextParse ==
  \/ callParseInputValue
  \/ callReturn

ParseSpec == Init /\ [][NextParse]_vars


(***************************************************************************)
(* valueToString, on the values parseInputValue returns.                   *)
(***************************************************************************)
DigitChars == <<"0", "1", "2", "3", "4", "5", "6", "7", "8", "9">>

\* the decimal digits of a natural number
RECURSIVE DigitsOf(_)
DigitsOf(n) ==
  IF n < 10 THEN <<DigitChars[n + 1]>>
  ELSE Append(DigitsOf(n \div 10), DigitChars[(n % 10) + 1])

Zeros(k) == [i \in 1..k |-> "0"]

Abs(n) == IF n < 0 THEN 0 - n ELSE n

\* Number::toString for the positive number digits * 10^e (digits without
\* trailing zero): plain digits, a decimal point inside or in front of them,
\* or the exponent form beyond 21 integer digits and below 1e-6
PlaceDecimal(digits, e) ==
  LET k == Len(digits)
      n == Len(digits) + e
  IN IF k <= n /\ n <= 21 THEN digits \o Zeros(n - k)
     ELSE IF 0 < n /\ n <= 21
     THEN SubSeq(digits, 1, n) \o <<".">> \o SubSeq(digits, n + 1, k)
     ELSE IF 0 - 6 < n /\ n <= 0 THEN <<"0", ".">> \o Zeros(0 - n) \o digits
     ELSE <<digits[1]>>
            \o (IF k = 1 THEN <<>> ELSE <<".">> \o Tail(digits))
            \o <<"e", IF n - 1 < 0 THEN "-" ELSE "+">>
            \o DigitsOf(Abs(n - 1))

\* String(x) for a number x (its payload v)
NumberToString(v) ==
  IF v.inf THEN (IF v.m < 0 THEN Chars("-Infinity") ELSE Chars("Infinity"))
  ELSE IF v.m = 0 THEN <<"0">>
  ELSE (IF v.m < 0 THEN <<"-">> ELSE <<>>)
         \o PlaceDecimal(DigitsOf(Abs(v.m)), v.e)

\* the texts of a sequence joined with a separator (Array.prototype.join)
RECURSIVE JoinWith(_, _)
JoinWith(texts, sep) ==
  IF Len(texts) = 0 THEN <<>>
  ELSE IF Len(texts) = 1 THEN texts[1]
  ELSE texts[1] \o sep \o JoinWith(Tail(texts), sep)

\* String(value): an array is its elements joined with commas (null as the
\* empty text), an object is [object Object]
RECURSIVE StringOf(_)
StringOf(value) ==
  CASE value.t = "null" -> Chars("null")
    [] value.t = "string" -> value.v
    [] value.t = "number" -> NumberToString(value.v)
    [] value.t = "boolean" -> IF value.v THEN Chars("true") ELSE Chars("false")
    [] value.t = "array" ->
         JoinWith([i \in 1..Len(value.v) |->
                     IF value.v[i].t = "null" THEN <<>> ELSE StringOf(value.v[i])],
                  <<",">>)
    [] value.t = "object" -> Chars("[object Object]")

\* the characters of c inside a JSON string literal
Escape(c) ==
  CASE c = "\"" -> <<"\\", "\"">>
    [] c = "\\" -> <<"\\", "\\">>
    [] c = "\n" -> <<"\\", "n">>
    [] c = "\r" -> <<"\\", "r">>
    [] c = "\t" -> <<"\\", "t">>
    [] OTHER -> <<c>>

\* the JSON string literal of a text
Quote(text) ==
  <<"\"">> \o Concat([i \in 1..Len(text) |-> Escape(text[i])]) \o <<"\"">>

\* the keys of an object, one after the other (JSON.stringify writes them in
\* insertion order, which the object of the model does not keep; the value
\* read back from the text is the same in any order)
KeySeq(f) ==
  CHOOSE s \in [1..Cardinality(DOMAIN f) -> DOMAIN f] :
    \A i, j \in DOMAIN s : i # j => s[i] # s[j]

\* JSON.stringify(value, null, 2) at the indentation indent: two more blanks
\* for each level, one element or member to a line
RECURSIVE Stringify(_, _)
Stringify(value, indent) ==
  CASE value.t = "null" -> Chars("null")
    [] value.t = "boolean" -> IF value.v THEN Chars("true") ELSE Chars("false")
    [] value.t = "number" ->
         IF value.v.inf THEN Chars("null") ELSE NumberToString(value.v)
    [] value.t = "string" -> Quote(value.v)
    [] value.t = "array" ->
         IF Len(value.v) = 0 THEN Chars("[]")
         ELSE <<"[", "\n">>
                \o JoinWith([i \in 1..Len(value.v) |->
                               indent \o <<" ", " ">>
                                 \o Stringify(value.v[i], indent \o <<" ", " ">>)],
                            <<",", "\n">>)
                \o <<"\n">> \o indent \o <<"]">>
    [] value.t = "object" ->
         IF DOMAIN value.v = {} THEN Chars("{}")
         ELSE <<"{", "\n">>
                \o JoinWith([i \in 1..Cardinality(DOMAIN value.v) |->
                               indent \o <<" ", " ">>
                                 \o Quote(KeySeq(value.v)[i]) \o <<":", " ">>
                                 \o Stringify(value.v[KeySeq(value.v)[i]],
                                              indent \o <<" ", " ">>)],
                            <<",", "\n">>)
                \o <<"\n">> \o indent \o <<"}">>

\* valueToString(value, type)
valueToString(value, type) ==
  IF value.t = "null" THEN <<>>
  ELSE IF type \in {"object", "array"} THEN Stringify(value, <<>>)
  ELSE StringOf(value)

\* The round trip of an input field: the text is parsed, the value is shown
\* with valueToString, and what is shown is parsed again.
callValueToString ==
  /\ call.op = "parseInputValue"
  /\ call' = [op |-> "valueToString", value |-> call.result,
              type |-> call.type,
              result |-> valueToString(call.result, call.type)]
  /\ UNCHANGED <<state, nodes, edges, now, last, cleared, held, hook>>

\* parseInputValue on the text valueToString returned, with the same type
callParseInputValueBack ==
  /\ call.op = "valueToString"
  /\ call' = [op |-> "parseInputValue", value |-> call.result,
              type |-> call.type]
               @@ parseInputValue(call.result, call.type)
  /\ UNCHANGED <<state, nodes, edges, now, last, cleared, held, hook>>

NextRoundTrip ==
  \/ callParseInputValue
  \/ callValueToString
  \/ callParseInputValueBack
  \/ callReturn

RoundTripSpec == Init /\ [][NextRoundTrip]_vars


(***************************************************************************)
(* The resolver on two node arrays, one with a tool builder in front of an *)
(* agent on the edge B -> C and one with it on the edge A -> B, and every   *)
(* edge array.                                                             *)
(***************************************************************************)
FlowNodeArrays ==
  { <<[id |-> "A", type |-> "chatInputNode"],
      [id |-> "B", type |-> "toolBuilderNode"],
      [id |-> "C", type |-> "agentNode"]>>,
    <<[id |-> "A", type |-> "toolBuilderNode"],
      [id |-> "B", type |-> "agentNode"],
      [id |-> "C", type |-> "chatInputNode"]>> }

SetFlow ==
  /\ Len(nodes) = 0
  /\ state = emptyState
  /\ \E newNodes \in FlowNodeArrays, newEdges \in EdgeArrays :
       setWorkflowStructure(newNodes, newEdges)

NextFlow ==
  \/ SetFlow /\ UNCHANGED <<cleared, call, held, hook>>
  \/ RecordData /\ UNCHANGED <<cleared, call, held, hook>>
  \/ ClearAny /\ UNCHANGED <<cleared, call, held, hook>>
  \/ clearAllOutputs /\ UNCHANGED <<cleared, call, held, hook>>

FlowSpec == Init /\ [][NextFlow]_vars


(***************************************************************************)
(* The resolver while the canvas is edited: setWorkflowStructure is called *)
(* again with the same nodes and another edge array, whatever has been     *)
(* recorded.                                                               *)
(***************************************************************************)
Reconnect ==
  /\ Len(nodes) # 0
  /\ \E newEdges \in EdgeArrays : setWorkflowStructure(nodes, newEdges)

NextRewire ==
  \/ SetFlow /\ UNCHANGED <<cleared, call, held, hook>>
  \/ Reconnect /\ UNCHANGED <<cleared, call, held, hook>>
  \/ RecordData /\ UNCHANGED <<cleared, call, held, hook>>
  \/ ClearAny /\ UNCHANGED <<cleared, call, held, hook>>
  \/ clearAllOutputs /\ UNCHANGED <<cleared, call, held, hook>>

RewireSpec == Init /\ [][NextRewire]_vars



(***************************************************************************)
(* optimizeOutputForStorage on what it returned: updateNodeOutput is       *)
(* called with an output that was stored before, as after                  *)
(* loadExecutionState.  An output may itself carry values that were stored *)
(* before (objects with the fields of the marker) next to raw arrays.      *)
(***************************************************************************)

\* raw arrays of MaxLen items and an object with the fields of the marker
EchoItems ==
  {JNum(1),
   JArr([i \in 1..MaxLen |-> JNum(1)]),
   JObj([k \in {"__optimized", "__originalLength", "items"} |->
          CASE k = "__optimized" -> JBool(TRUE)
            [] k = "__originalLength" -> JNum(MaxLen)
            [] k = "items" -> JArr(<<JNum(1)>>)])}

RecordedValues == CompactValues \cup ArraysOver(EchoItems)

callOptimizeOutputForStorageOnRecorded ==
  /\ call.op = "none"
  /\ \E value \in RecordedValues :
       call' = [op |-> "optimizeOutputForStorage", value |-> value,
                result |-> optimizeOutputForStorage(value)]
  /\ UNCHANGED <<state, nodes, edges, now, last, cleared, held, hook>>

\* the value the last call returned is handed to the function again
callOptimizeOutputForStorageOnStored ==
  /\ call.op = "optimizeOutputForStorage"
  /\ call' = [op |-> "optimizeOutputForStorage", value |-> call.result,
              result |-> optimizeOutputForStorage(call.result)]
  /\ UNCHANGED <<state, nodes, edges, now, last, cleared, held, hook>>

NextRecompact ==
  \/ callOptimizeOutputForStorageOnRecorded
  \/ callOptimizeOutputForStorageOnStored
  \/ callReturn

RecompactSpec == Init /\ [][NextRecompact]_vars



(***************************************************************************)
(* The onboarding chat hook (useOnboardingChat).  hook holds the state and *)
(* the refs of the hook, the conversation id the chat service reports      *)
(* (serviceId), the callers whose chat.startConversation call is in flight *)
(* (pending) and the position of the user's sendMessage call (send).  The  *)
(* chat service is the environment: a startConversation call resolves with *)
(* a conversation id, which the service reports from then on, or rejects.  *)
(* An async function runs without interruption up to its next await.       *)
(***************************************************************************)
ConversationIds == {"c1"}

RegistrationStatuses == {"new", "existing"}

\* the first render and the effect that creates the chat service: the
\* initial values of useState and useRef, chatRef.current = chat,
\* chat.resetConversation(), setIsChatReady(true); the auto-start effect is
\* due because isChatReady changed
mount ==
  /\ hook.phase = "none"
  /\ \E registrationStatus \in RegistrationStatuses :
       hook' = [phase |-> "mounted",
                registrationStatus |-> registrationStatus,
                isMounted |-> TRUE,
                chat |-> "service",
                isChatReady |-> TRUE,
                conversationId |-> <<>>,
                isStarting |-> FALSE,
                hasUserStartedChat |-> FALSE,
                hasUserAsked |-> FALSE,
                isSending |-> FALSE,
                isThinking |-> FALSE,
                agentReply |-> FALSE,
                error |-> FALSE,
                effectDue |-> TRUE,
                serviceId |-> <<>>,
                pending |-> {},
                send |-> "idle"]
  /\ UNCHANGED <<state, nodes, edges, now, last, cleared, call, held>>

\* setConversationId(id): startConversationIfNeeded depends on
\* conversationId, so the auto-start effect is due again when it changes
setConversationId(h, id) ==
  IF h.conversationId = <<id>> THEN h
  ELSE [h EXCEPT !.conversationId = <<id>>, !.effectDue = TRUE]

\* startConversationIfNeeded up to its await: the hook after it, with the
\* caller in pending when chat.startConversation was called
startConversationIfNeeded(h, caller) ==
  IF h.chat = "none" \/ h.isStarting THEN h
  ELSE IF h.serviceId # <<>>
  THEN (IF h.conversationId = <<>> THEN setConversationId(h, h.serviceId[1])
        ELSE h)
  ELSE IF h.conversationId # <<>> THEN h
  ELSE [h EXCEPT !.isStarting = TRUE, !.pending = @ \cup {caller}]

\* the auto-start effect, run after a render in which one of its
\* dependencies changed
autoStartEffect ==
  /\ hook.phase = "mounted"
  /\ hook.effectDue
  /\ hook' = LET h == [hook EXCEPT !.effectDue = FALSE]
             IN IF ~h.isChatReady THEN h
                ELSE IF h.serviceId # <<>> THEN h
                ELSE IF h.registrationStatus = "existing" THEN h
                ELSE startConversationIfNeeded(h, "effect")
  /\ UNCHANGED <<state, nodes, edges, now, last, cleared, call, held>>

\* sendMessage(text) with a text that is not blank, up to its first await
\* that suspends: when startConversationIfNeeded returns without a call of
\* chat.startConversation, chat.sendMessage is called next
sendMessage ==
  /\ hook.phase = "mounted"
  /\ hook.send = "idle"
  /\ hook' = LET h == startConversationIfNeeded(
                        [hook EXCEPT !.error = FALSE,
                                     !.hasUserStartedChat = TRUE,
                                     !.isSending = TRUE,
                                     !.hasUserAsked = TRUE,
                                     !.isThinking = TRUE],
                        "sendMessage")
             IN [h EXCEPT !.send = IF "sendMessage" \in h.pending
                                   THEN "awaitingStart" ELSE "awaitingSend"]
  /\ UNCHANGED <<state, nodes, edges, now, last, cleared, call, held>>

\* chat.startConversation resolves for one caller: the rest of
\* startConversationIfNeeded, and for sendMessage the call of
\* chat.sendMessage after it
startConversationResolves ==
  /\ hook.phase # "none"
  /\ \E caller \in hook.pending, id \in ConversationIds :
       hook' = LET h == [hook EXCEPT !.serviceId = <<id>>,
                                     !.pending = @ \ {caller},
                                     !.isStarting = FALSE]
                   k == IF h.isMounted THEN setConversationId(h, id) ELSE h
               IN IF caller = "sendMessage"
                  THEN [k EXCEPT !.send = "awaitingSend"] ELSE k
  /\ UNCHANGED <<state, nodes, edges, now, last, cleared, call, held>>

\* chat.startConversation rejects for one caller: the finally block, then
\* the catch of the effect or of sendMessage
startConversationRejects ==
  /\ hook.phase # "none"
  /\ \E caller \in hook.pending :
       hook' = LET h == [hook EXCEPT !.pending = @ \ {caller},
                                     !.isStarting = FALSE]
               IN IF caller = "sendMessage"
                  THEN [h EXCEPT !.send = "idle", !.error = TRUE,
                                 !.isThinking = FALSE, !.isSending = FALSE]
                  ELSE [h EXCEPT !.error = h.isMounted \/ @]
  /\ UNCHANGED <<state, nodes, edges, now, last, cleared, call, held>>

\* chat.sendMessage resolves or rejects: the rest of sendMessage
chatSendMessageSettles ==
  /\ hook.phase # "none"
  /\ hook.send = "awaitingSend"
  /\ \E rejected \in BOOLEAN :
       hook' = [hook EXCEPT !.send = "idle", !.isSending = FALSE,
                            !.error = rejected \/ @,
                            !.isThinking = ~rejected /\ @]
  /\ UNCHANGED <<state, nodes, edges, now, last, cleared, call, held>>

\* the message handler set on the chat service: a message of the service
\* arrives; agentReply tells whether a reply text is held
messageHandler ==
  /\ hook.phase = "mounted"
  /\ \E speaker \in {"customer", "agent"} :
       hook' = IF ~hook.hasUserAsked THEN hook
               ELSE IF speaker = "agent"
               THEN [hook EXCEPT !.isThinking = FALSE, !.agentReply = TRUE]
               ELSE hook
  /\ UNCHANGED <<state, nodes, edges, now, last, cleared, call, held>>

\* the component is removed: the cleanups of the two effects
unmount ==
  /\ hook.phase = "mounted"
  /\ hook' = [hook EXCEPT !.phase = "unmounted", !.isMounted = FALSE,
                          !.isChatReady = FALSE, !.chat = "none"]
  /\ UNCHANGED <<state, nodes, edges, now, last, cleared, call, held>>

NextHook ==
  \/ mount
  \/ autoStartEffect
  \/ sendMessage
  \/ startConversationResolves
  \/ startConversationRejects
  \/ chatSendMessageSettles
  \/ messageHandler
  \/ unmount

HookSpec == Init /\ [][NextHook]_vars



(***************************************************************************)
(* Properties of the execution state store, checked under Spec.            *)
(***************************************************************************)

\* the outputs of the results in outs, in iteration order; with chatOnly,
\* those of the entry-point results only
OutputsIn(outs, chatOnly) ==
  LET sel == SelectSeq(outs, LAMBDA e :
               ~chatOnly \/ e.result.nodeType = "chatInputNode")
  IN [i \in 1..Len(sel) |-> sel[i].result.output]

\* agg is the merge of the objects of objs in which, for every key, the
\* last object that has the key wins
IsMergeOf(agg, objs) ==
  /\ IsObj(agg)
  /\ Keys(agg) = UNION {Keys(objs[i]) : i \in 1..Len(objs)}
  /\ \A k \in Keys(agg) :
       \E i \in 1..Len(objs) :
         /\ k \in Keys(objs[i])
         /\ \A j \in (i + 1)..Len(objs) : k \notin Keys(objs[j])
         /\ agg.v[k] = objs[i].v[k]

\* C1: in every reachable state session is the merge of the outputs of the
\* entry-point results in nodeOutputs and source is the merge of all outputs
\* in nodeOutputs (what the rebuild of clearNodeOutput computes).
C1_AggregatesDerivable ==
  /\ IsMergeOf(state.session, OutputsIn(state.nodeOutputs, TRUE))
  /\ IsMergeOf(state.source, OutputsIn(state.nodeOutputs, FALSE))

\* the results of all node ids other than n are the same in outs1 and outs2
OthersUnchanged(n, outs1, outs2) ==
  \A m \in NodeIds \ {n} :
    /\ HasKey(outs2, m) <=> HasKey(outs1, m)
    /\ HasKey(outs1, m) => Lookup(outs2, m) = Lookup(outs1, m)

\* The steps that leave last.op = "updateNodeOutput" without advancing the
\* clock are the updateNodeOutput calls (likewise for clearNodeOutput).
\* C2: after updateNodeOutput(n, o, type, name), nodeOutputs[n] is a success
\* result with output Compact(o) and the given type and name, source is
\* Compact(o), session is Compact(o) for the entry-point type and unchanged
\* otherwise, and the results of all other node ids are unchanged.
C2_RecordEffect ==
  [][(last'.op = "updateNodeOutput" /\ now' = now)
     => LET n == last'.nodeId
            compacted == optimizeOutputForStorage(last'.output)
            stored == Lookup(state'.nodeOutputs, n)
        IN /\ HasKey(state'.nodeOutputs, n)
           /\ stored.status = "success"
           /\ stored.output = compacted
           /\ stored.nodeType = last'.nodeType
           /\ stored.nodeName = last'.nodeName
           /\ Cardinality({i \in 1..Len(state'.nodeOutputs) :
                             state'.nodeOutputs[i].id = n}) = 1
           /\ state'.source = compacted
           /\ state'.session = IF last'.nodeType = "chatInputNode"
                               THEN compacted ELSE state.session
           /\ OthersUnchanged(n, state.nodeOutputs, state'.nodeOutputs)]_vars

\* C2 witness: a record replaced the prior result of a node that is not an
\* entry point, next to another recorded node, the stored output is the
\* compacted one and session kept its earlier non-empty value.
C2_Witness ==
  /\ last.op = "updateNodeOutput"
  /\ last.nodeType # "chatInputNode"
  /\ Len(state.nodeOutputs) >= 2
  /\ state.nodeOutputs[1].id = last.nodeId
  /\ state.source # last.output
  /\ state.source = Lookup(state.nodeOutputs, last.nodeId).output
  /\ state.session # EmptyObj
  /\ state.session # state.source

\* C3: after clearNodeOutput(n), n has no entry, every other entry is
\* unchanged (and keeps its place in the iteration order), session is the
\* later-wins merge of the remaining entry-point outputs and source the
\* later-wins merge of all remaining outputs, so no key that only the
\* removed result had stays in either.
C3_ClearEffect ==
  [][(last'.op = "clearNodeOutput" /\ now' = now)
     => LET n == last'.nodeId
        IN /\ ~HasKey(state'.nodeOutputs, n)
           /\ OthersUnchanged(n, state.nodeOutputs, state'.nodeOutputs)
           /\ state'.nodeOutputs =
                SelectSeq(state.nodeOutputs, LAMBDA e : e.id # n)
           /\ IsMergeOf(state'.session, OutputsIn(state'.nodeOutputs, TRUE))
           /\ IsMergeOf(state'.source, OutputsIn(state'.nodeOutputs, FALSE))
           /\ \A k \in Keys(state'.source) :
                \E i \in 1..Len(state'.nodeOutputs) :
                  k \in Keys(state'.nodeOutputs[i].result.output)
           /\ \A k \in Keys(state'.session) :
                \E i \in 1..Len(state'.nodeOutputs) :
                  /\ state'.nodeOutputs[i].result.nodeType = "chatInputNode"
                  /\ k \in Keys(state'.nodeOutputs[i].result.output)]_vars

\* C3 witness: a result was just cleared and two results remain, an entry
\* point and another node, that share a key with different values; source
\* holds the later value and session the entry point's.
C3_Witness ==
  /\ last.op = "clearNodeOutput"
  /\ ~HasKey(state.nodeOutputs, last.nodeId)
  /\ Len(state.nodeOutputs) = 2
  /\ state.nodeOutputs[1].result.nodeType = "chatInputNode"
  /\ state.nodeOutputs[2].result.nodeType # "chatInputNode"
  /\ \E k \in Keys(state.nodeOutputs[1].result.output) :
       /\ k \in Keys(state.nodeOutputs[2].result.output)
       /\ state.nodeOutputs[1].result.output.v[k] #
            state.nodeOutputs[2].result.output.v[k]
       /\ state.source.v[k] = state.nodeOutputs[2].result.output.v[k]
       /\ state.session.v[k] = state.nodeOutputs[1].result.output.v[k]
  /\ Keys(state.source) # Keys(state.nodeOutputs[2].result.output)

\* C4: clearNodeOutput(n) of a recorded node immediately followed by
\* updateNodeOutput of n with the same output, type and name gives session
\* and source the values they had before the clear.
C4_ClearThenRecordRestores ==
  [][(/\ Len(cleared) = 1
      /\ Len(cleared[1].removed) = 1
      /\ last'.op = "updateNodeOutput"
      /\ now' = now
      /\ last'.nodeId = cleared[1].nodeId
      /\ optimizeOutputForStorage(last'.output) = cleared[1].removed[1].output
      /\ last'.nodeType = cleared[1].removed[1].nodeType
      /\ last'.nodeName = cleared[1].removed[1].nodeName)
     => (/\ state'.session = cleared[1].session
         /\ state'.source = cleared[1].source)]_vars

(***************************************************************************)
(* Properties of the data availability resolver, checked under DataSpec.   *)
(* A predecessor of n is a node other than n.                              *)
(***************************************************************************)

\* the (source, target) pairs of the edge array
EdgePairs == {<<edges[i].source, edges[i].target>> : i \in 1..Len(edges)}

\* the sources of the edges into a node of S
SourcesInto(S) == {p[1] : p \in {q \in EdgePairs : q[2] \in S}}

RECURSIVE BackClosure(_)
BackClosure(S) ==
  LET T == S \cup SourcesInto(S)
  IN IF T = S THEN S ELSE BackClosure(T)

\* the nodes other than n from which n is reached by following one or more
\* edges forward
TransitivePreds(n) == BackClosure(SourcesInto({n})) \ {n}

\* the type the node array gives the id, "undefined" for an id not in it
DeclaredType(id) ==
  IF \E i \in 1..Len(nodes) : nodes[i].id = id
  THEN nodes[CHOOSE i \in 1..Len(nodes) : nodes[i].id = id].type
  ELSE "undefined"

\* the type-exclusion rule: a tool builder in front of an agent
Excluded(n, p) ==
  DeclaredType(n) = "agentNode" /\ DeclaredType(p) = "toolBuilderNode"

\* the nodes other than n with an edge straight into n, the excluded ones
\* left out
DirectPreds(n) == {p \in SourcesInto({n}) \ {n} : ~Excluded(n, p)}

Recorded(id) == HasKey(state.nodeOutputs, id)
Stored(id) == Lookup(state.nodeOutputs, id).output

\* exposed is stored without its top-level keys that contain the marker
IsRedactionOf(exposed, stored) ==
  /\ IsObj(exposed)
  /\ Keys(exposed) =
       {k \in Keys(stored) : ~Includes(k, "session.direct_input")}
  /\ \A k \in Keys(exposed) : exposed.v[k] = stored.v[k]

\* the {session, source, node_outputs} object
IsAvailableData(r) ==
  IsObj(r) /\ Keys(r) = {"session", "source", "node_outputs"}

\* every edge joins two nodes of the node array
WellFormedEdges ==
  \A i \in 1..Len(edges) :
    DeclaredType(edges[i].source) # "undefined" /\
    DeclaredType(edges[i].target) # "undefined"

\* no edge joins a node to itself
NoSelfLoop == \A i \in 1..Len(edges) : edges[i].source # edges[i].target

\* C5 (stated for structures whose edges join nodes of the node array and
\* have no self-loop): for a node with a transitive predecessor, source is the redacted
\* stored output of the direct predecessor if there is exactly one, and with
\* more than one it is an object keyed by the id of each (recorded) direct
\* predecessor mapping to its redacted stored output.
C5_SourceForm ==
  \A n \in NodeIds :
    (WellFormedEdges /\ NoSelfLoop /\ TransitivePreds(n) # {}) =>
      LET r == getAvailableDataForNode(n)
          D == DirectPreds(n)
          RD == {p \in D : Recorded(p)}
      IN /\ IsAvailableData(r)
         /\ (Cardinality(D) = 1 /\ RD # {}) =>
              \A p \in D : IsRedactionOf(r.v.source, Stored(p))
         /\ Cardinality(D) > 1 =>
              /\ Keys(r.v.source) = RD
              /\ \A p \in RD : IsRedactionOf(r.v.source.v[p], Stored(p))

\* C6: for a node with a transitive predecessor, the keys of node_outputs are
\* exactly its transitive predecessors that have a recorded result, each
\* mapped to its redacted stored output.
C6_NodeOutputsKeys ==
  \A n \in NodeIds :
    TransitivePreds(n) # {} =>
      LET r == getAvailableDataForNode(n)
      IN /\ IsAvailableData(r)
         /\ Keys(r.v.node_outputs) = {p \in TransitivePreds(n) : Recorded(p)}
         /\ \A p \in Keys(r.v.node_outputs) :
              IsRedactionOf(r.v.node_outputs.v[p], Stored(p))

\* C6 witness: the chain A -> B -> C with all three nodes recorded; the
\* node_outputs of C hold A (not a direct predecessor) and B but not C.
C6_Witness ==
  /\ EdgePairs = {<<"A", "B">>, <<"B", "C">>}
  /\ \A n \in NodeIds : Recorded(n)
  /\ Keys(getAvailableDataForNode("C").v.node_outputs) = {"A", "B"}
  /\ Keys(getAvailableDataForNode("B").v.node_outputs) = {"A"}

\* C7: for an entry-point node without transitive predecessors the result
\* is the session value of the store itself, not a {session, source,
\* node_outputs} object: {} while nothing is recorded, and the node's own
\* stored output right after its output was recorded.
C7_EntryPointSeesSession ==
  \A n \in NodeIds :
    (DeclaredType(n) = "chatInputNode" /\ TransitivePreds(n) = {}) =>
      LET r == getAvailableDataForNode(n)
      IN /\ r = state.session
         /\ ~IsAvailableData(r)
         /\ Len(state.nodeOutputs) = 0 => r = EmptyObj
         /\ (/\ last.op = "updateNodeOutput"
             /\ last.nodeId = n
             /\ last.nodeType = "chatInputNode") =>
              /\ r = Stored(n)
              /\ r = optimizeOutputForStorage(last.output)

\* C7 witness: the entry-point node C has no incoming edge, another node has
\* a recorded result and C's own output was recorded last.
C7_Witness ==
  /\ DeclaredType("C") = "chatInputNode"
  /\ SourcesInto({"C"}) = {}
  /\ Len(edges) > 0
  /\ Len(state.nodeOutputs) >= 2
  /\ last.op = "updateNodeOutput"
  /\ last.nodeId = "C"
  /\ getAvailableDataForNode("C") = DataOutput["C"]

\* C8 (stated for structures whose edges join nodes of the node array): the
\* result is null exactly for a node without transitive
\* predecessors that is not an entry point; for a node with predecessors none
\* of which has a recorded result it is a {session, source, node_outputs}
\* object whose source and node_outputs are empty.
C8_NullOnlyWithoutPredecessors ==
  \A n \in NodeIds :
    LET r == getAvailableDataForNode(n)
    IN WellFormedEdges =>
       /\ r = JNull <=>
            (TransitivePreds(n) = {} /\ DeclaredType(n) # "chatInputNode")
       /\ (/\ TransitivePreds(n) # {}
           /\ \A p \in TransitivePreds(n) : ~Recorded(p)) =>
            /\ IsAvailableData(r)
            /\ r.v.source = EmptyObj
            /\ r.v.node_outputs = EmptyObj

\* C9: for a node with predecessors, every predecessor output exposed in
\* source (itself in the single form, each entry in the keyed form) and in
\* node_outputs is the stored output without its top-level keys that
\* contain "session.direct_input", all other keys keeping their values.
C9_Redaction ==
  \A n \in NodeIds :
    TransitivePreds(n) # {} =>
      LET r == getAvailableDataForNode(n)
          src == r.v.source
          incoming == {p \in SourcesInto({n}) : Recorded(p)}
      IN /\ \A p \in Keys(r.v.node_outputs) :
              Recorded(p) /\ IsRedactionOf(r.v.node_outputs.v[p], Stored(p))
         /\ \/ \E p \in incoming : IsRedactionOf(src, Stored(p))
            \/ /\ Keys(src) \subseteq incoming
               /\ \A p \in Keys(src) : IsRedactionOf(src.v[p], Stored(p))

\* C9 witness: C has the recorded direct predecessors A and B whose stored
\* outputs carry a key equal to the marker and a key containing it; the
\* keyed source and node_outputs expose both outputs without these keys.
C9_Witness ==
  /\ EdgePairs = {<<"A", "C">>, <<"B", "C">>}
  /\ DeclaredType("A") = "chatInputNode"
  /\ DeclaredType("B") = "toolBuilderNode"
  /\ DeclaredType("C") = "chatInputNode"
  /\ Recorded("A") /\ Recorded("B")
  /\ "session.direct_input" \in Keys(Stored("A"))
  /\ "my.session.direct_input.raw" \in Keys(Stored("B"))
  /\ getAvailableDataForNode("C").v.source =
       JObj([A |-> JObj([x |-> JNum(1)]), B |-> JObj([y |-> JStr("a")])])
  /\ getAvailableDataForNode("C").v.node_outputs =
       getAvailableDataForNode("C").v.source

\* C10: in front of an agent node every tool builder is left out of the
\* direct predecessors that build source while its recorded output is still
\* in node_outputs; in front of any other node no direct predecessor is left
\* out.
C10_ToolBuilderExclusion ==
  \A n \in NodeIds :
    TransitivePreds(n) # {} =>
      LET r == getAvailableDataForNode(n)
          src == r.v.source
          direct == Range(directPredecessorsOf(n))
      IN \A p \in SourcesInto({n}) :
           IF Excluded(n, p)
           THEN /\ p \notin direct
                /\ p \notin Keys(src)
                /\ Recorded(p) =>
                     /\ ~IsRedactionOf(src, Stored(p))
                     /\ p \in Keys(r.v.node_outputs)
                     /\ IsRedactionOf(r.v.node_outputs.v[p], Stored(p))
           ELSE /\ p \in direct
                /\ Recorded(p) =>
                     \/ IsRedactionOf(src, Stored(p))
                     \/ /\ p \in Keys(src)
                        /\ IsRedactionOf(src.v[p], Stored(p))

\* C10 witness: the agent C has the tool builder B and the entry point A in
\* front of it, both recorded: source is the output of A alone and
\* node_outputs holds A and B.
C10_Witness ==
  /\ EdgePairs = {<<"A", "C">>, <<"B", "C">>}
  /\ DeclaredType("C") = "agentNode"
  /\ DeclaredType("B") = "toolBuilderNode"
  /\ DeclaredType("A") = "chatInputNode"
  /\ Recorded("A") /\ Recorded("B")
  /\ getAvailableDataForNode("C").v.source = JObj([x |-> JNum(1)])
  /\ Keys(getAvailableDataForNode("C").v.node_outputs) = {"A", "B"}

(***************************************************************************)
(* Properties of the predecessor traversal, checked under TraverseSpec.    *)
(***************************************************************************)

\* all nodes from which n is reached by following one or more edges forward
BackReach(n) == BackClosure(SourcesInto({n}))

\* no node is reached from itself by following one or more edges forward
Acyclic == \A n \in NodeIds : n \notin BackReach(n)

Returned == call.op = "findPredecessors" /\ call.outcome = "returned"

\* C11: on an acyclic graph every findPredecessors call returns, and what it
\* returns are exactly the nodes from which the target is reached by
\* following one or more edges forward, each once.
C11_AcyclicTraversal ==
  /\ [](Acyclic /\ Returned =>
          /\ Range(call.result) = BackReach(call.target)
          /\ Cardinality(Range(call.result)) = Len(call.result))
  /\ ((Acyclic /\ Running) ~> Returned)

\* C11 witness: on the chain A -> B -> C the call for C returned A and B.
C11_Witness ==
  /\ EdgePairs = {<<"A", "B">>, <<"B", "C">>}
  /\ Returned
  /\ call.target = "C"
  /\ Range(call.result) = {"A", "B"}


\* a self-loop or a longer cycle lies on the target or behind it
CycleBehind(n) == \E m \in {n} \cup BackReach(n) : m \in BackReach(m)

\* C12: a findPredecessors call whose target has a self-loop or a longer
\* cycle on it or behind it never ends by returning a predecessor set: it
\* ends with the outcome CyclicGraphError.
C12_CycleReported ==
  (/\ call.op = "findPredecessors"
   /\ CycleBehind(call.target)
   /\ call.outcome # "running")
  => call.outcome = "CyclicGraphError"

(***************************************************************************)
(* Further properties of the resolver, checked under DataSpec.             *)
(***************************************************************************)

\* an edge met while resolving the predecessors of n names a node id that
\* is not in the node array
DanglingBehind(n) ==
  \E i \in 1..Len(edges) :
    /\ edges[i].target \in {n} \cup BackReach(n)
    /\ \/ DeclaredType(edges[i].source) = "undefined"
       \/ DeclaredType(edges[i].target) = "undefined"

\* C13: when an edge met while resolving the predecessors of n names a node
\* id that is not in the node array, getAvailableDataForNode(n) reports a
\* DanglingEdgeError; it does not return session, null or a {session,
\* source, node_outputs} object built with the absent id as a predecessor.
C13_DanglingEdgeReported ==
  \A n \in NodeIds :
    DanglingBehind(n) =>
      LET r == getAvailableDataForNode(n)
      IN r.t = "error"


(***************************************************************************)
(* Further properties of the execution state store.                        *)
(***************************************************************************)

\* C14: in every reachable state hasNodeBeenExecuted(n) is true exactly when
\* nodeOutputs is empty or n has a recorded result: it is true for every node
\* id right after clearAllOutputs, and false for every node id without a
\* result once some node has one.
C14_HasExecuted ==
  \A n \in NodeIds :
    /\ hasNodeBeenExecuted(n) <=>
         (StoredIds(state.nodeOutputs) = {} \/ n \in StoredIds(state.nodeOutputs))
    /\ last.op = "clearAllOutputs" => hasNodeBeenExecuted(n)
    /\ (StoredIds(state.nodeOutputs) \ {n} # {} /\ ~Recorded(n)) =>
         ~hasNodeBeenExecuted(n)

\* C14 witness: after three records and the clearing of one of them the
\* store holds results of A and C only: A counts as executed, B does not.
C14_Witness ==
  /\ StoredIds(state.nodeOutputs) = {"A", "C"}
  /\ last.op = "clearNodeOutput"
  /\ hasNodeBeenExecuted("A")
  /\ ~hasNodeBeenExecuted("B")


\* C15: updateNodeOutput and clearNodeOutput never modify the state value
\* that was current before the call: a consumer that read it before the call
\* finds it unchanged afterwards, its nodeOutputs map and every result in it
\* included.
C15_PreviousStateUntouched ==
  (Len(held) = 1 /\ last.op \in {"updateNodeOutput", "clearNodeOutput"})
  => held[1].after = held[1].before


(***************************************************************************)
(* Properties of the storage compaction, checked under CompactSpec.        *)
(***************************************************************************)

\* every item of the array has the schema signature of the first
SameSignatures(a) ==
  \A i \in 1..Len(a) : getSchemaSignature(a[i]) = getSchemaSignature(a[1])

\* C16: an array of more than arrayThreshold (2) items that all have the
\* schema signature of the first is compacted to a marker that records the
\* length of the array and whose items list holds one element, the compacted
\* first item; every other array keeps its length and is compacted item by
\* item.
C16_ArrayCompaction ==
  (call.op = "optimizeOutputForStorage" /\ IsArr(call.value)) =>
    LET a == call.value.v
        r == call.result
    IN IF Len(a) > 2 /\ SameSignatures(a)
       THEN /\ IsObj(r)
            /\ Keys(r) = {"__optimized", "__originalLength", "items"}
            /\ r.v["__optimized"] = JBool(TRUE)
            /\ r.v["__originalLength"] = JNum(Len(a))
            /\ IsArr(r.v["items"])
            /\ Len(r.v["items"].v) = 1
            /\ r.v["items"].v[1] = optimizeOutputForStorage(a[1])
       ELSE /\ IsArr(r)
            /\ Len(r.v) = Len(a)
            /\ \A i \in 1..Len(a) : r.v[i] = optimizeOutputForStorage(a[i])

\* C16 witness: an array of three objects of one signature became a marker
\* of original length 3 around its first object.
C16_Witness ==
  /\ call.op = "optimizeOutputForStorage"
  /\ call.value = JArr(<<JObj([x |-> JNum(1)]), JObj([x |-> JNum(1)]),
                         JObj([x |-> JNum(1)])>>)
  /\ call.result.v["__originalLength"] = JNum(3)
  /\ call.result.v["items"] = JArr(<<JObj([x |-> JNum(1)])>>)

\* the value with every array cut down to its first item
RECURSIVE Truncated(_)
Truncated(value) ==
  IF IsArr(value) THEN
    IF Len(value.v) = 0 THEN value ELSE JArr(<<Truncated(value.v[1])>>)
  ELSE IF IsObj(value) THEN JObj([k \in Keys(value) |-> Truncated(value.v[k])])
  ELSE value

RECURSIVE TruncatedMarked(_)
TruncatedMarked(value) ==
  IF IsArr(value) THEN
    IF Len(value.v) = 0 THEN value
    ELSE LET cut == JArr(<<TruncatedMarked(value.v[1])>>)
         IN IF Len(value.v) > 2 /\ SameSignatures(value.v)
            THEN JObj([k \in {"__optimized", "__originalLength", "items"} |->
                        CASE k = "__optimized" -> JBool(TRUE)
                          [] k = "__originalLength" -> JNum(Len(value.v))
                          [] k = "items" -> cut])
            ELSE cut
  ELSE IF IsObj(value)
  THEN JObj([k \in Keys(value) |-> TruncatedMarked(value.v[k])])
  ELSE value

Placeholder(text, name) ==
  /\ Len(name) > 0
  /\ \A k \in 1..Len(name) : name[k] \notin {" ", "\t", "\n", "\r", "{", "}"}
  /\ \E i \in 1..Len(text) :
       /\ i + Len(name) + 3 <= Len(text)
       /\ SubSeq(text, i, i + Len(name) + 3) = <<"{", "{">> \o name \o <<"}", "}">>

\* all parts of the text
Parts(text) ==
  {SubSeq(text, i, j) : i \in 1..Len(text), j \in 1..Len(text)}

\* C18 (checked under ExtractSpec): extractDynamicVariables(text) holds
\* exactly the names X for which the text contains "{{X}}" with X a
\* non-empty run without whitespace and braces, each name once; braces that
\* enclose whitespace give nothing.
C18_ExtractedNames ==
  call.op = "extractDynamicVariables" =>
    /\ Range(call.result) = {name \in Parts(call.text) : Placeholder(call.text, name)}
    /\ Cardinality(Range(call.result)) = Len(call.result)
    /\ \A k \in 1..Len(call.result) : " " \notin Range(call.result[k])

\* C18 witness: "{{a}}{{ b }}{{a}}" gives the one name a.
C18_Witness ==
  /\ call.op = "extractDynamicVariables"
  /\ call.text = Chars("{{a}}{{ b }}{{a}}")
  /\ call.result = <<Chars("a")>>


(***************************************************************************)
(* Properties of parseInputValue, checked under ParseSpec.                 *)
(***************************************************************************)

\* the kinds of value a successful coercion to the type gives
KindsOf(type) ==
  CASE type = "string" -> {"string"}
    [] type = "number" -> {"number"}
    [] type = "boolean" -> {"boolean"}
    [] OTHER -> {"null", "boolean", "number", "string", "array", "object"}

\* the text equals the word up to the case of its letters
EqIgnoreCase(text, word) ==
  /\ Len(text) = Len(word)
  /\ \A k \in 1..Len(word) :
       \/ text[k] = word[k]
       \/ text[k] \in DOMAIN LowerOf /\ LowerOf[text[k]] = word[k]

\* the text is one of the words up to case
IsWord(text, words) == \E w \in words : EqIgnoreCase(text, Chars(w))

\* the text is not empty and not only whitespace, and its coercion to the
\* type has no result: no number literal at its start, no boolean word, no
\* JSON text
CoercionFails(text, type) ==
  /\ \E k \in 1..Len(text) : text[k] \notin Whitespace
  /\ CASE type = "number" -> parseFloat(text) = <<>>
       [] type = "boolean" ->
            ~IsWord(trim(text), {"true", "1", "yes", "false", "0", "no"})
       [] type \in {"object", "array"} -> JSONparse(text) = <<>>
       [] OTHER -> FALSE

\* C19: for every text and every schema type parseInputValue returns a
\* value and raises no error to its caller; whenever the coercion fails (the
\* warning is logged) the value returned is the text itself, and a value
\* other than the text is a value of a kind the type allows.
C19_SoftFailure ==
  call.op = "parseInputValue" =>
    /\ call.outcome = "returned"
    /\ call.warned <=> CoercionFails(call.value, call.type)
    /\ call.warned => call.result = JStr(call.value)
    /\ call.result # JStr(call.value) => call.result.t \in KindsOf(call.type)

\* C19 witness: "[1,2]]" is no JSON text: the call for type array logged
\* the warning and returned "[1,2]]".
C19_Witness ==
  /\ call.op = "parseInputValue"
  /\ call.type = "array"
  /\ call.value = Chars("[1,2]]")
  /\ call.outcome = "returned"
  /\ call.warned
  /\ call.result = JStr(Chars("[1,2]]"))

\* C20 as stated: for type boolean the result is true when the whole text
\* is true, 1 or yes up to case, false when it is false, 0 or no up to case,
\* and the text itself for every other text.
C20_BooleanWords ==
  (call.op = "parseInputValue" /\ call.type = "boolean") =>
    call.result =
      IF IsWord(call.value, {"true", "1", "yes"}) THEN JBool(TRUE)
      ELSE IF IsWord(call.value, {"false", "0", "no"}) THEN JBool(FALSE)
      ELSE JStr(call.value)

\* the text is one of the words up to case, with whitespace before and
\* after it
IsPaddedWord(text, words) ==
  \E i \in 1..Len(text), j \in 1..Len(text) :
    /\ \A k \in 1..Len(text) : (k < i \/ k > j) => text[k] \in Whitespace
    /\ i <= j
    /\ IsWord(SubSeq(text, i, j), words)

\* C20 (amended): for type boolean the result is true when the text without
\* its leading and trailing whitespace is true, 1 or yes up to case, false
\* when it is false, 0 or no up to case, and the text itself, unchanged, for
\* every other text.
C20_BooleanWordsTrimmed ==
  (call.op = "parseInputValue" /\ call.type = "boolean") =>
    call.result =
      IF IsPaddedWord(call.value, {"true", "1", "yes"}) THEN JBool(TRUE)
      ELSE IF IsPaddedWord(call.value, {"false", "0", "no"}) THEN JBool(FALSE)
      ELSE JStr(call.value)

\* C20 witness: "Yes " (with a trailing blank) gave true.
C20_Witness ==
  /\ call.op = "parseInputValue"
  /\ call.type = "boolean"
  /\ call.value = Chars("Yes ")
  /\ call.result = JBool(TRUE)


(***************************************************************************)
(* Numeric texts.  A text is numeric when the whole of it, leading and     *)
(* trailing whitespace aside, is one signed decimal literal (digits with   *)
(* an optional fraction and exponent, a point needing a digit on one side  *)
(* of it) or a signed Infinity.                                            *)
(***************************************************************************)

\* the state after the character c in state q of the automaton that reads a
\* signed decimal literal ("no" once the text is none)
NumericStep(q, c) ==
  CASE q = "start" /\ c \in {"+", "-"} -> "sign"
    [] q \in {"start", "sign", "int"} /\ IsDigit(c) -> "int"
    [] q \in {"start", "sign"} /\ c = "." -> "point"
    [] q = "int" /\ c = "." -> "frac"
    [] q \in {"point", "frac"} /\ IsDigit(c) -> "frac"
    [] q \in {"int", "frac"} /\ c \in {"e", "E"} -> "e"
    [] q = "e" /\ c \in {"+", "-"} -> "esign"
    [] q \in {"e", "esign", "exp"} /\ IsDigit(c) -> "exp"
    [] OTHER -> "no"

RECURSIVE NumericRun(_, _, _)
NumericRun(text, i, q) ==
  IF i > Len(text) THEN q ELSE NumericRun(text, i + 1, NumericStep(q, text[i]))

IsNumericText(text) ==
  LET body == SubSeq(text, SkipChars(text, 1, Whitespace),
                     LastNonSpace(text, Len(text)))
  IN \/ NumericRun(body, 1, "start") \in {"int", "frac", "exp"}
     \/ body \in {Chars("Infinity"), Chars("+Infinity"), Chars("-Infinity")}

\* C21: for type number parseInputValue returns the number the text denotes
\* when the text is numeric, and the text itself, unchanged, for every text
\* that is not numeric, a text that only begins with digits included.
C21_NumberOnlyNumeric ==
  (call.op = "parseInputValue" /\ call.type = "number") =>
    IF IsNumericText(call.value)
    THEN call.result.t = "number" /\ <<call.result>> = parseFloat(call.value)
    ELSE call.result = JStr(call.value)


\* what the coercions give when tried in the order JSON text, numeric text,
\* boolean word (true or false up to case, whitespace around it aside), text
InOrder(text) ==
  IF JSONparse(text) # <<>> THEN JSONparse(text)[1]
  ELSE IF IsNumericText(text) THEN parseFloat(text)[1]
  ELSE IF IsPaddedWord(text, {"true"}) THEN JBool(TRUE)
  ELSE IF IsPaddedWord(text, {"false"}) THEN JBool(FALSE)
  ELSE JStr(text)

\* C22: for type any parseInputValue returns the value of the text as JSON
\* when it is a JSON text, else its number when it is numeric, else its
\* boolean when it is a boolean word, else the text itself; it fails for no
\* text (no error, no warning).
C22_AnyOrder ==
  (call.op = "parseInputValue" /\ call.type = "any") =>
    /\ call.outcome = "returned"
    /\ ~call.warned
    /\ call.result = InOrder(call.value)


(***************************************************************************)
(* Properties of the round trip through valueToString, checked under       *)
(* RoundTripSpec.                                                          *)
(***************************************************************************)

\* C23: for every text and every schema type, parsing the text that
\* valueToString gives for a parsed value returns that value again:
\* parseInputValue(valueToString(parseInputValue(t, type), type), type) is
\* parseInputValue(t, type).
C23_RoundTrip ==
  [][(call.op = "valueToString" /\ call'.op = "parseInputValue")
       => call'.result = call.value]_vars


(***************************************************************************)
(* Further properties of the resolver, checked under FlowSpec: what the    *)
(* result depends on.                                                      *)
(***************************************************************************)

\* the recorded results of the nodes of S are the same before and after
\* the step
ResultsAgreeOn(S) ==
  \A p \in S :
    /\ HasKey(state'.nodeOutputs, p) <=> HasKey(state.nodeOutputs, p)
    /\ HasKey(state.nodeOutputs, p) =>
         Lookup(state'.nodeOutputs, p) = Lookup(state.nodeOutputs, p)

\* source and node_outputs of the result for n
SourceAndOutputs(n) ==
  LET r == getAvailableDataForNode(n)
  IN <<r.v.source, r.v.node_outputs>>

\* they are the same before and after the step
SameSourceAndOutputs(n) == SourceAndOutputs(n)' = SourceAndOutputs(n)

\* C24: for a node n with a transitive predecessor, source and node_outputs
\* of getAvailableDataForNode(n) depend only on the graph and on the recorded
\* results of the nodes from which n is reached: they are the same in two
\* stores that agree on those results, so every updateNodeOutput or
\* clearNodeOutput of a node that is neither n nor a transitive predecessor
\* of n leaves them as they were, whatever it does to the aggregates session
\* and source of the store.
C24_DependsOnPredecessorResults ==
  [][(edges' = edges /\ nodes' = nodes) =>
       \A n \in NodeIds :
         (TransitivePreds(n) # {} /\ ResultsAgreeOn(BackReach(n)))
           => SameSourceAndOutputs(n)]_vars

\* C24 witness: on the graph A -> B the node A is recorded and the output of
\* C, a node that is not in front of B, was recorded last: the source
\* aggregate of the store is the output of C while the source and
\* node_outputs for B hold the output of A only.
C24_Witness ==
  /\ EdgePairs = {<<"A", "B">>}
  /\ Recorded("A")
  /\ last.op = "updateNodeOutput"
  /\ last.nodeId = "C"
  /\ state.source = DataOutput["C"]
  /\ getAvailableDataForNode("B").v.source = filterOutput(DataOutput["A"])
  /\ Keys(getAvailableDataForNode("B").v.node_outputs) = {"A"}


(***************************************************************************)
(* Further properties of the resolver, checked under FlowSpec: the keyed   *)
(* form of source.                                                         *)
(***************************************************************************)

\* C25: whenever getAvailableDataForNode(n) returns source in its keyed form
\* (the list of direct predecessors does not have exactly one entry), every
\* key of source is a key of node_outputs too and is a transitive
\* predecessor of n other than n, on every edge array, those with a
\* self-loop on n included.
C25_SourceKeysAreNodeOutputsKeys ==
  \A n \in NodeIds :
    (TransitivePreds(n) # {} /\ Len(directPredecessorsOf(n)) # 1) =>
      LET r == getAvailableDataForNode(n)
      IN /\ Keys(r.v.source) \subseteq Keys(r.v.node_outputs)
         /\ Keys(r.v.source) \subseteq TransitivePreds(n)


(***************************************************************************)
(* Properties of the resolver under a change of the edge array, checked    *)
(* under RewireSpec.                                                       *)
(***************************************************************************)

\* C26: the result of getAvailableDataForNode depends on the set of
\* (source, target) pairs of the edges only: a step that changes the edge
\* array but neither its set of pairs nor the nodes nor the state (a second
\* edge between two nodes connected in that direction already) leaves
\* getAvailableDataForNode(n) unchanged for every n.
C26_EdgeMultiplicityIrrelevant ==
  [][(EdgePairs' = EdgePairs /\ nodes' = nodes /\ state' = state)
       => \A n \in NodeIds :
            getAvailableDataForNode(n)' = getAvailableDataForNode(n)]_vars


(***************************************************************************)
(* Termination of the predecessor traversal on every edge array, checked   *)
(* under TraverseSpec.                                                     *)
(***************************************************************************)

\* the forEach loop of dfs(n) has been entered and is not over yet
Expanding(n) ==
  /\ call.op = "findPredecessors"
  /\ \E j \in 1..Len(call.stack) : call.stack[j].nodeId = n /\ call.stack[j].i >= 1

\* C27: on every edge array, with or without self-loops and longer cycles,
\* a findPredecessors call returns, because a node id is expanded only when
\* it is not in visited and stays in visited from then on; what the call
\* returns are the nodes from which the target is reached backward, and the
\* predecessor ids getAvailableDataForNode goes on with are these without
\* the target.
C27_TraversalTerminates ==
  /\ [][\A n \in NodeIds :
          (~Expanding(n) /\ Expanding(n)') =>
            (n \notin call.visited /\ n \in call'.visited)]_vars
  /\ [][(Running /\ call'.op = "findPredecessors") =>
          call.visited \subseteq call'.visited]_vars
  /\ [](Returned =>
          /\ Range(call.result) = BackReach(call.target)
          /\ Range(findPredecessors(call.target)) = Range(call.result)
          /\ Range(predecessorIdsOf(call.target))
               = BackReach(call.target) \ {call.target})
  /\ (Running ~> Returned)

\* C27 witness: on the cycle A -> B, B -> A the call for A returned B and A,
\* and the resolver goes on with B alone.
C27_Witness ==
  /\ EdgePairs = {<<"A", "B">>, <<"B", "A">>}
  /\ Returned
  /\ call.target = "A"
  /\ Range(call.result) = {"A", "B"}
  /\ predecessorIdsOf("A") = <<"B">>


(***************************************************************************)
(* clearNodeOutput of a node id without a recorded result, checked under   *)
(* AuditSpec.                                                              *)
(***************************************************************************)

\* session and source are the merges clearNodeOutput rebuilds from outs
AggregatesRebuiltFrom(st, outs) ==
  /\ IsMergeOf(st.session, OutputsIn(outs, TRUE))
  /\ IsMergeOf(st.source, OutputsIn(outs, FALSE))

\* C28: clearNodeOutput(n) for an n that has no recorded result leaves
\* nodeOutputs as it is and makes session and source the merges rebuilt from
\* all recorded results; the state after the call is the state before it
\* exactly when session and source were those merges already.
C28_ClearOfAbsentRebuilds ==
  [][(/\ last'.op = "clearNodeOutput"
      /\ now' = now
      /\ ~HasKey(state.nodeOutputs, last'.nodeId))
     => (/\ state'.nodeOutputs = state.nodeOutputs
         /\ AggregatesRebuiltFrom(state', state.nodeOutputs)
         /\ (state' = state
               <=> AggregatesRebuiltFrom(state, state.nodeOutputs)))]_vars

\* C28 witness: a clearNodeOutput call for a node id without a result has
\* just run on a store with two results, and source, which held the last
\* recorded output alone, is now another value.
C28_Witness ==
  /\ last.op = "clearNodeOutput"
  /\ Len(cleared) = 1
  /\ cleared[1].nodeId = last.nodeId
  /\ Len(cleared[1].removed) = 0
  /\ Len(state.nodeOutputs) = 2
  /\ cleared[1].source = state.nodeOutputs[2].result.output
  /\ state.source # cleared[1].source


(***************************************************************************)
(* Properties of optimizeOutputForStorage applied again, checked under     *)
(* RecompactSpec.                                                          *)
(***************************************************************************)

\* C29: optimizeOutputForStorage is idempotent: called with a value it
\* returned, it returns that value, so recording a stored output again
\* stores the same value.
C29_CompactIdempotent ==
  [][(call.op = "optimizeOutputForStorage"
        /\ call'.op = "optimizeOutputForStorage")
       => call'.result = call.result]_vars


(***************************************************************************)
(* Properties of the onboarding chat hook, checked under HookSpec.         *)
(***************************************************************************)

\* C30: under every interleaving of the auto-start effect with a
\* sendMessage call of the user, chat.sendMessage is called only when a
\* conversation exists (the chat service reports a conversation id, which it
\* does once a chat.startConversation call has resolved), and at most one
\* chat.startConversation call is in flight at any time.
C30_SendAfterConversationStarted ==
  /\ [][(/\ hook.phase # "none"
         /\ hook.send # "awaitingSend"
         /\ hook'.send = "awaitingSend")
        => hook'.serviceId # <<>>]_vars
  /\ [](hook.phase # "none" => Cardinality(hook.pending) <= 1)


====
